---- MODULE Spec2Model ----
(***************************************************************************)
(* A model of the query-expansion service: the expansion engine            *)
(* (docker/app/model_handler.py, class LlamaQueryExpander) and the request *)
(* gateway (docker/app/main.py).                                           *)
(*                                                                         *)
(* Text is modelled as a sequence of one-character strings, so that        *)
(* searching, replacing, splitting, trimming and truncating are computed   *)
(* character by character as Python's str methods compute them.            *)
(***************************************************************************)
EXTENDS Integers, Sequences, FiniteSets, TLC

\* ------------------------------------------------------------------------
\* State
\* ------------------------------------------------------------------------

VARIABLES
  lifespan,        \* where main.lifespan stands
  model_handler,   \* main.model_handler: "None", "LlamaQueryExpander" or "MockModelHandler"
  sqs_handler,     \* main.sqs_handler is not None
  mlflow_logger,   \* main.mlflow_logger is not None
  model,           \* the engine's self.model: "None", "real", "stub" or NoAttr
  tokenizer,       \* the engine's self.tokenizer: "None", "real", "stub" or NoAttr
  ready,           \* the engine's self.ready
  load_calls,      \* calls of AutoModelForCausalLM.from_pretrained made by the
                   \* load_model call that is running or has just returned
  calls,           \* the client calls, by slot
  running,         \* the call that holds the event loop inside a blocking step (0: none)
  REQUEST_COUNT,   \* main.REQUEST_COUNT
  ERROR_COUNT,     \* main.ERROR_COUNT
  REQUEST_LATENCY, \* number of samples observed by main.REQUEST_LATENCY
  queue,           \* the message bodies the queue has accepted, in order
  fn               \* a pure function of the engine called on one input: [op, input, runs]

vars == <<lifespan, model_handler, sqs_handler, mlflow_logger, model, tokenizer,
          ready, load_calls, calls, running, REQUEST_COUNT, ERROR_COUNT,
          REQUEST_LATENCY, queue, fn>>

engine == <<model_handler, model, tokenizer, ready>>
globals == <<sqs_handler, mlflow_logger>>
metrics == <<REQUEST_COUNT, ERROR_COUNT, REQUEST_LATENCY>>

\* ------------------------------------------------------------------------
\* Text primitives (Python str semantics on sequences of characters)
\* ------------------------------------------------------------------------

\* The characters str.strip() and str.split() treat as whitespace.
Whitespace == {" ", "\t", "\n"}

\* The double-quote character tested by _clean_response.
Quote == "\""

\* str.lower() on one character.
LowerChar(c) ==
  CASE c = "A" -> "a"
    [] c = "B" -> "b"
    [] c = "C" -> "c"
    [] c = "D" -> "d"
    [] c = "E" -> "e"
    [] c = "F" -> "f"
    [] c = "G" -> "g"
    [] c = "H" -> "h"
    [] c = "I" -> "i"
    [] c = "J" -> "j"
    [] c = "K" -> "k"
    [] c = "L" -> "l"
    [] c = "M" -> "m"
    [] c = "N" -> "n"
    [] c = "O" -> "o"
    [] c = "P" -> "p"
    [] c = "Q" -> "q"
    [] c = "R" -> "r"
    [] c = "S" -> "s"
    [] c = "T" -> "t"
    [] c = "U" -> "u"
    [] c = "V" -> "v"
    [] c = "W" -> "w"
    [] c = "X" -> "x"
    [] c = "Y" -> "y"
    [] c = "Z" -> "z"
    [] OTHER -> c

\* str.lower()
Lower(s) == [i \in 1..Len(s) |-> LowerChar(s[i])]

\* s[i:].startswith(sub), for a 1-based position i
MatchesAt(sub, s, i) ==
  /\ i + Len(sub) - 1 <= Len(s)
  /\ \A k \in 1..Len(sub) : s[i + k - 1] = sub[k]

\* sub in s
Contains(sub, s) == \E i \in 1..(Len(s) + 1) : MatchesAt(sub, s, i)

\* s[i:].replace(old, new) for a non-empty old: the non-overlapping
\* occurrences of old, found left to right, are each replaced by new.
RECURSIVE ReplaceFrom(_, _, _, _)
ReplaceFrom(s, old, new, i) ==
  IF i > Len(s) THEN <<>>
  ELSE IF MatchesAt(old, s, i)
       THEN new \o ReplaceFrom(s, old, new, i + Len(old))
       ELSE <<s[i]>> \o ReplaceFrom(s, old, new, i + 1)

\* s.replace(old, new)
Replace(s, old, new) == ReplaceFrom(s, old, new, 1)

\* len(s.split()): the number of maximal runs of non-whitespace characters
SplitCount(s) ==
  Cardinality({i \in 1..Len(s) :
                 /\ s[i] \notin Whitespace
                 /\ (i = 1 \/ s[i - 1] \in Whitespace)})

\* s.strip()
Strip(s) ==
  LET keep == {i \in 1..Len(s) : s[i] \notin Whitespace}
  IN IF keep = {} THEN <<>>
     ELSE LET lo == CHOOSE i \in keep : \A j \in keep : i <= j
              hi == CHOOSE i \in keep : \A j \in keep : j <= i
          IN SubSeq(s, lo, hi)

\* s.startswith('"') and s.endswith('"')
StartsAndEndsWithQuote(s) == Len(s) >= 1 /\ s[1] = Quote /\ s[Len(s)] = Quote

\* s[1:-1]
DropFirstAndLast(s) == SubSeq(s, 2, Len(s) - 1)

\* s[:n]
Prefix(s, n) == SubSeq(s, 1, IF Len(s) < n THEN Len(s) ELSE n)

\* ------------------------------------------------------------------------
\* The mock policy: LlamaQueryExpander._expand_with_mock_model
\* ------------------------------------------------------------------------

\* The exact-match table, as a set of <<key, value>> pairs.
expansions == {
  \* 'ML algos' -> 'machine learning algorithms'
  <<<<"M","L"," ","a","l","g","o","s">>,
    <<"m","a","c","h","i","n","e"," ","l","e","a","r","n","i","n","g"," ","a","l","g","o","r","i","t","h","m","s">>>>,
  \* 'AI/ML enginer' -> 'artificial intelligence machine learning engineer'
  <<<<"A","I","/","M","L"," ","e","n","g","i","n","e","r">>,
    <<"a","r","t","i","f","i","c","i","a","l"," ","i","n","t","e","l","l","i","g","e","n","c","e"," ","m","a","c","h","i","n","e"," ","l","e","a","r","n","i","n","g"," ","e","n","g","i","n","e","e","r">>>>,
  \* 'deep lerning' -> 'deep learning'
  <<<<"d","e","e","p"," ","l","e","r","n","i","n","g">>,
    <<"d","e","e","p"," ","l","e","a","r","n","i","n","g">>>>,
  \* 'NLP techniques' -> 'natural language processing techniques'
  <<<<"N","L","P"," ","t","e","c","h","n","i","q","u","e","s">>,
    <<"n","a","t","u","r","a","l"," ","l","a","n","g","u","a","g","e"," ","p","r","o","c","e","s","s","i","n","g"," ","t","e","c","h","n","i","q","u","e","s">>>>,
  \* 'computer vison' -> 'computer vision'
  <<<<"c","o","m","p","u","t","e","r"," ","v","i","s","o","n">>,
    <<"c","o","m","p","u","t","e","r"," ","v","i","s","i","o","n">>>>,
  \* 'data sci' -> 'data science'
  <<<<"d","a","t","a"," ","s","c","i">>,
    <<"d","a","t","a"," ","s","c","i","e","n","c","e">>>>,
  \* 'neural nets' -> 'neural networks'
  <<<<"n","e","u","r","a","l"," ","n","e","t","s">>,
    <<"n","e","u","r","a","l"," ","n","e","t","w","o","r","k","s">>>>,
  \* 'CNN' -> 'convolutional neural networks'
  <<<<"C","N","N">>,
    <<"c","o","n","v","o","l","u","t","i","o","n","a","l"," ","n","e","u","r","a","l"," ","n","e","t","w","o","r","k","s">>>>,
  \* 'RNN' -> 'recurrent neural networks'
  <<<<"R","N","N">>,
    <<"r","e","c","u","r","r","e","n","t"," ","n","e","u","r","a","l"," ","n","e","t","w","o","r","k","s">>>>
}

\* The misspellings and abbreviations the substring repairs look for,
\* and their canonical spellings.
T_algo == <<"a","l","g","o">>   \* 'algo'
T_algorithm == <<"a","l","g","o","r","i","t","h","m">>   \* 'algorithm'
T_algos == <<"a","l","g","o","s">>   \* 'algos'
T_algorithms == <<"a","l","g","o","r","i","t","h","m","s">>   \* 'algorithms'
T_enginer == <<"e","n","g","i","n","e","r">>   \* 'enginer'
T_engineer == <<"e","n","g","i","n","e","e","r">>   \* 'engineer'
T_lerning == <<"l","e","r","n","i","n","g">>   \* 'lerning'
T_learning == <<"l","e","a","r","n","i","n","g">>   \* 'learning'
T_vison == <<"v","i","s","o","n">>   \* 'vison'
T_vision == <<"v","i","s","i","o","n">>   \* 'vision'
T_sci == <<"s","c","i">>   \* 'sci'
T_science == <<"s","c","i","e","n","c","e">>   \* 'science'

\* The suffix appended to a very short query, and the marker word.
ShortSuffix == <<" ","t","e","c","h","n","i","q","u","e","s"," ","a","n","d"," ","a","p","p","l","i","c","a","t","i","o","n","s">>   \* ' techniques and applications'
EnhancedMarker == <<"e","n","h","a","n","c","e","d"," ">>   \* 'enhanced '

\* len(query) <= 4 at model_handler.py:279
ShortQueryLen == 4

\* query in expansions
InExpansions(query) == \E p \in expansions : p[1] = query

\* expansions[query]
ExpansionOf(query) == (CHOOSE p \in expansions : p[1] = query)[2]

\* The substring repairs of model_handler.py:264-276, applied in order to
\* the running text `expanded`; every trigger is tested on the lower-cased
\* query, every replace acts on the text as written.
RepairAlgo(query, expanded) ==
  IF Contains(T_algo, Lower(query)) /\ ~Contains(T_algorithm, Lower(query))
  THEN Replace(Replace(expanded, T_algo, T_algorithm), T_algos, T_algorithms)
  ELSE expanded

RepairEnginer(query, expanded) ==
  IF Contains(T_enginer, Lower(query))
  THEN Replace(expanded, T_enginer, T_engineer)
  ELSE expanded

RepairLerning(query, expanded) ==
  IF Contains(T_lerning, Lower(query))
  THEN Replace(expanded, T_lerning, T_learning)
  ELSE expanded

RepairVison(query, expanded) ==
  IF Contains(T_vison, Lower(query))
  THEN Replace(expanded, T_vison, T_vision)
  ELSE expanded

RepairSci(query, expanded) ==
  IF Contains(T_sci, Lower(query)) /\ SplitCount(query) <= 2
  THEN Replace(expanded, T_sci, T_science)
  ELSE expanded

Repairs(query) ==
  RepairSci(query,
    RepairVison(query,
      RepairLerning(query,
        RepairEnginer(query,
          RepairAlgo(query, query)))))

\* Faulty variant: the length of the query is not tested.
AddContext_any_length(query, expanded) ==
  IF SplitCount(query) = 1
  THEN expanded \o ShortSuffix
  ELSE expanded

\* "Add context if query is very short" (model_handler.py:279-280)
AddContext(query, expanded) ==
  IF SplitCount(query) = 1 /\ Len(query) <= ShortQueryLen
  THEN expanded \o ShortSuffix
  ELSE expanded

\* return expanded if expanded != query else f"enhanced {query}"
\* Faulty variant: the marker word is never prepended.
EnsureChanged_unmarked(query, expanded) == expanded

EnsureChanged(query, expanded) ==
  IF expanded # query THEN expanded ELSE EnhancedMarker \o query

\* Faulty variant: with the stub tokenizer installed the policy hands back
\* the stub's canned decode text (model_handler.py:167).
expand_with_mock_model_by_engine(query) ==
  IF tokenizer = "stub"
  THEN <<"e","x","p","a","n","d","e","d"," ","q","u","e","r","y"," ","w","i","t","h"," ","m","a","c","h","i","n","e"," ","l","e","a","r","n","i","n","g"," ","a","l","g","o","r","i","t","h","m","s">>
  ELSE IF InExpansions(query)
  THEN ExpansionOf(query)
  ELSE EnsureChanged(query, AddContext(query, Repairs(query)))

\* Faulty variant: the table is looked up with the query stripped and
\* lower-cased, so near-misses of a key get the key's value.
expand_with_mock_model_folded(query) ==
  IF \E p \in expansions : Lower(Strip(p[1])) = Lower(Strip(query))
  THEN (CHOOSE p \in expansions : Lower(Strip(p[1])) = Lower(Strip(query)))[2]
  ELSE EnsureChanged(query, AddContext(query, Repairs(query)))

\* LlamaQueryExpander._expand_with_mock_model(query): the value returned.
expand_with_mock_model(query) ==
  IF InExpansions(query)
  THEN ExpansionOf(query)
  ELSE EnsureChanged(query, AddContext(query, Repairs(query)))

\* ------------------------------------------------------------------------
\* Response cleaning: LlamaQueryExpander._clean_response
\* ------------------------------------------------------------------------

\* len(response) > 200 / response[:200] at model_handler.py:297-298
MaxResponseLen == 200

\* "Remove quotes if present" (model_handler.py:293-294)
RemoveQuotes(response) ==
  IF StartsAndEndsWithQuote(response) THEN DropFirstAndLast(response)
  ELSE response

\* "Ensure it's not too long" (model_handler.py:297-298)
LimitLength(response) ==
  IF Len(response) > MaxResponseLen
  THEN Strip(Prefix(response, MaxResponseLen))
  ELSE response

\* LlamaQueryExpander._clean_response(response)
clean_response(response) == LimitLength(RemoveQuotes(Strip(response)))

\* ------------------------------------------------------------------------
\* The real path's text handling: LlamaQueryExpander._expand_with_real_model
\* ------------------------------------------------------------------------

Delimiter == <<"I","m","p","r","o","v","e","d"," ","q","u","e","r","y",":">>   \* 'Improved query:'

\* generated_text.split(delim)[-1]: what follows the last of the
\* non-overlapping occurrences of delim found left to right (the whole
\* text when there is none). `start` is where the current piece begins.
RECURSIVE LastPieceFrom(_, _, _, _)
LastPieceFrom(text, delim, i, start) ==
  IF i > Len(text) THEN SubSeq(text, start, Len(text))
  ELSE IF MatchesAt(delim, text, i)
       THEN LastPieceFrom(text, delim, i + Len(delim), i + Len(delim))
       ELSE LastPieceFrom(text, delim, i + 1, start)

\* Faulty variant: the text after the first occurrence of the delimiter is
\* taken.
ExtractExpanded_first(generated_text, query) ==
  IF Contains(Delimiter, generated_text)
  THEN LET first == CHOOSE i \in 1..Len(generated_text) :
                      /\ MatchesAt(Delimiter, generated_text, i)
                      /\ \A j \in 1..(i - 1) : ~MatchesAt(Delimiter, generated_text, j)
       IN Strip(SubSeq(generated_text, first + Len(Delimiter), Len(generated_text)))
  ELSE query

\* model_handler.py:226-229
ExtractExpanded(generated_text, query) ==
  IF Contains(Delimiter, generated_text)
  THEN Strip(LastPieceFrom(generated_text, Delimiter, 1, 1))
  ELSE query

\* model_handler.py:226-238: the value the real path returns when no step
\* raises and the tokenizer decoded the output to generated_text.
RealResult(generated_text, query) ==
  clean_response(ExtractExpanded(generated_text, query))

\* ------------------------------------------------------------------------
\* Client calls and the initial state
\* ------------------------------------------------------------------------

\* How many client calls (HTTP requests and direct calls of the engine's
\* methods) one behaviour makes.
MaxCalls == 2

Calls == 1..MaxCalls

\* The queries clients send in the service model.
Queries == {
  <<"C","N","N">>,                       \* 'CNN' (a key of the table)
  <<"m","l"," ","a","l","g","o">>        \* 'ml algo' (a substring repair)
}

\* The texts tokenizer.decode may hand back on the real path.
DecodedTexts == {
  \* 'Improved query: "neural nets" '
  <<"I","m","p","r","o","v","e","d"," ","q","u","e","r","y",":"," ","\"","n","e","u","r","a","l"," ","n","e","t","s","\""," ">>,
  \* 'no marker here'
  <<"n","o"," ","m","a","r","k","e","r"," ","h","e","r","e">>
}

\* The steps of the real path at which the backend may raise.
FailStages == {"tokenize", "generate", "decode", "clean"}

\* A text field that holds no text (distinct from the empty text <<>>).
NoText == <<"<no text>">>

QueuedPlaceholder == <<"R","e","q","u","e","s","t"," ","q","u","e","u","e","d"," ","f","o","r"," ","p","r","o","c","e","s","s","i","n","g">>   \* 'Request queued for processing'

MockHandlerPrefix == <<"e","x","p","a","n","d","e","d",":"," ">>   \* 'expanded: '

\* The value of an attribute that does not exist on the object (never set,
\* or removed by del): reading it raises AttributeError.
NoAttr == "no attribute"

\* A call slot no client has used yet.
IdleCall == [
  op |-> "none",            \* "expand" (POST /expand), "health" (GET /health),
                            \* "queue_status" (GET /queue/status),
                            \* "engine" (LlamaQueryExpander.expand_query called directly)
  st |-> "idle",            \* "idle", "generating", "sleeping", "sending",
                            \* "status" (awaiting get_queue_status), "done"
  query |-> NoText,
  use_queue |-> FALSE,
  status |-> 0,             \* the HTTP status answered (0: none yet)
  queued |-> FALSE,         \* QueryResponse.queued
  original_query |-> NoText,
  expanded_query |-> NoText,
  health |-> "",            \* the "status" of the /health body
  model_loaded |-> FALSE,   \* the "model_loaded" of the /health body
  raised |-> "",            \* the exception the direct call raised to its caller
  ret |-> NoText,           \* what the engine's expand_query returned
  pending |-> NoText,       \* what the coroutine returns once asyncio.sleep ends
  engine_calls |-> 0,       \* calls of model_handler.expand_query
  real_calls |-> 0,         \* calls of _expand_with_real_model
  real_raised |-> FALSE,    \* a step of _expand_with_real_model raised
  mock_calls |-> 0,         \* calls of _expand_with_mock_model
  mock_out |-> NoText,      \* what _expand_with_mock_model computed
  sent |-> 0,               \* calls of sqs_handler.send_message
  send |-> "",              \* how send_message ended: "ok" or "error"
  task |-> FALSE,           \* a log_query_expansion background task was added
  body |-> {},              \* the keys of the JSON body of /queue/status
  queue_enabled |-> FALSE,  \* the "queue_enabled" of the /queue/status body
  get_status |-> ""         \* how get_queue_status ended: "ok" or "error"
]

\* One run of a pure function on fn.input: "idle" (not called), "sleeping"
\* (the result is computed, the coroutine is suspended), "done"; `at` is
\* the engine's <<model, tokenizer, ready>> when the run was called.
IdleRun == [st |-> "idle", output |-> NoText, at |-> <<>>]

NoFn == [op |-> "none", input |-> NoText, runs |-> <<IdleRun, IdleRun>>]

\* The state when the module main has been imported: no handler exists.
ServiceInit ==
  /\ lifespan = "init"
  /\ model_handler = "None"
  /\ sqs_handler = FALSE
  /\ mlflow_logger = FALSE
  /\ model = NoAttr
  /\ tokenizer = NoAttr
  /\ ready = FALSE
  /\ load_calls = 0
  /\ calls = [c \in Calls |-> IdleCall]
  /\ running = 0
  /\ REQUEST_COUNT = 0
  /\ ERROR_COUNT = 0
  /\ REQUEST_LATENCY = 0
  /\ queue = <<>>

Init == ServiceInit /\ fn = NoFn

\* ------------------------------------------------------------------------
\* The engine: construction, load_model, is_ready, cleanup
\* ------------------------------------------------------------------------

\* The lifespan positions at which the event loop serves client calls:
\* before startup has begun, between startup and shutdown, after shutdown.
\* Startup and shutdown contain no suspension point (load_model awaits
\* nothing, cleanup is synchronous), so no handler runs inside them.
Stable == {"init", "serving", "stopped"}

\* No call is suspended at an await or inside a blocking step.
NoneInFlight == \A c \in Calls : calls[c].st \in {"idle", "done"}

\* LlamaQueryExpander.is_ready(): "True", "False", or "AttributeError" when
\* self.model has to be read and the attribute does not exist.
\* MockModelHandler.is_ready() returns its ready flag.
is_ready ==
  IF model_handler = "MockModelHandler" THEN (IF ready THEN "True" ELSE "False")
  ELSE IF ~ready THEN "False"
  ELSE IF model = NoAttr THEN "AttributeError"
  ELSE IF model # "None" THEN "True" ELSE "False"

\* Faulty variant: the stubs are installed but ready is not set.
create_mock_model_not_ready ==
  /\ model' = "stub"
  /\ tokenizer' = "stub"
  /\ ready' = ready

\* LlamaQueryExpander._create_mock_model(): both stubs installed, ready set.
create_mock_model ==
  /\ model' = "stub"
  /\ tokenizer' = "stub"
  /\ ready' = TRUE

\* main.lifespan, line 42: model_handler = LlamaQueryExpander().  When the
\* constructor raises, the except clause of lifespan finds no handler and
\* installs MockModelHandler (ready from construction, no model attribute,
\* no cleanup method); startup is then over.  The server runs startup
\* before it accepts its first request.
lifespan_construct(ok) ==
  /\ lifespan = "init"
  /\ \A c \in Calls : calls[c].st = "idle"
  /\ IF ok
     THEN /\ model_handler' = "LlamaQueryExpander"
          /\ model' = "None"
          /\ tokenizer' = "None"
          /\ ready' = FALSE
          /\ lifespan' = "constructed"
     ELSE /\ model_handler' = "MockModelHandler"
          /\ model' = NoAttr
          /\ tokenizer' = NoAttr
          /\ ready' = TRUE
          /\ lifespan' = "serving"
  /\ UNCHANGED <<globals, load_calls, calls, running, metrics, queue, fn>>

\* load_model, lines 42-45: without HF_TOKEN a ValueError is raised, which
\* the outer except answers with _create_mock_model().
load_model_token(hf_token) ==
  /\ lifespan = "constructed"
  /\ IF hf_token
     THEN /\ lifespan' = "tokenizer"
          /\ UNCHANGED <<model, tokenizer, ready>>
     ELSE /\ create_mock_model
          /\ lifespan' = "loaded"
  /\ UNCHANGED <<model_handler, globals, load_calls, calls, running, metrics, queue, fn>>

\* load_model, lines 49-62: the tokenizer load; a failure is re-raised to
\* the outer except.
load_model_tokenizer(ok) ==
  /\ lifespan = "tokenizer"
  /\ IF ok
     THEN /\ tokenizer' = "real"
          /\ lifespan' = "model"
          /\ UNCHANGED <<model, ready>>
     ELSE /\ create_mock_model
          /\ lifespan' = "loaded"
  /\ UNCHANGED <<model_handler, globals, load_calls, calls, running, metrics, queue, fn>>

\* The outcomes of one model load: from_pretrained returns and the calls
\* on the model that follow (to, eval) succeed; from_pretrained raises;
\* from_pretrained returns, self.model is assigned, and to or eval raises.
LoadOutcomes == {"ok", "from_pretrained raises", "to or eval raises"}

\* load_model, lines 94-110: the first (quantised) load.  On success ready
\* is set (line 129); on failure the fallback load is tried.
load_model_model(outcome) ==
  /\ lifespan = "model"
  /\ load_calls' = load_calls + 1
  /\ model' = IF outcome = "from_pretrained raises" THEN model ELSE "real"
  /\ ready' = (outcome = "ok")
  /\ lifespan' = IF outcome = "ok" THEN "loaded" ELSE "fallback"
  /\ UNCHANGED <<model_handler, globals, tokenizer, calls, running, metrics, queue, fn>>

\* Faulty variant: a failed fallback load is tried once more.
load_model_fallback_retried(outcome) ==
  /\ lifespan = "fallback"
  /\ load_calls' = load_calls + 1
  /\ IF outcome = "ok"
     THEN /\ model' = "real"
          /\ ready' = TRUE
          /\ UNCHANGED tokenizer
          /\ lifespan' = "loaded"
     ELSE IF load_calls < 2
     THEN /\ UNCHANGED <<model, tokenizer, ready>>
          /\ lifespan' = "fallback"
     ELSE /\ create_mock_model
          /\ lifespan' = "loaded"
  /\ UNCHANGED <<model_handler, globals, calls, running, metrics, queue, fn>>

\* load_model, lines 112-135: the fallback load without quantisation.  Its
\* failure reaches the outer except, hence _create_mock_model().
load_model_fallback(outcome) ==
  /\ lifespan = "fallback"
  /\ load_calls' = load_calls + 1
  /\ IF outcome = "ok"
     THEN /\ model' = "real"
          /\ ready' = TRUE
          /\ UNCHANGED tokenizer
     ELSE create_mock_model
  /\ lifespan' = "loaded"
  /\ UNCHANGED <<model_handler, globals, calls, running, metrics, queue, fn>>

\* main.lifespan, lines 46-48: SQSHandler is built when SQS_QUEUE_URL is
\* set.  When its constructor raises, the except clause of lifespan keeps
\* the engine and startup is over (no logger is built).
lifespan_sqs(sqs_queue_url, ok) ==
  /\ lifespan = "loaded"
  /\ sqs_handler' = (sqs_queue_url /\ ok)
  /\ lifespan' = IF sqs_queue_url /\ ~ok THEN "serving" ELSE "logger"
  /\ load_calls' = 0
  /\ UNCHANGED <<engine, mlflow_logger, calls, running, metrics, queue, fn>>

\* main.lifespan, line 51: mlflow_logger = MLflowLogger(); a raising
\* constructor leaves it None.
lifespan_mlflow(ok) ==
  /\ lifespan = "logger"
  /\ mlflow_logger' = ok
  /\ lifespan' = "serving"
  /\ UNCHANGED <<engine, sqs_handler, load_calls, calls, running, metrics, queue, fn>>

\* Faulty variant: the attributes are removed but ready is not cleared.
cleanup_keeps_ready ==
  /\ model' = IF model \in {"None", NoAttr} THEN model ELSE NoAttr
  /\ tokenizer' = IF model = NoAttr \/ tokenizer \in {"None", NoAttr}
                  THEN tokenizer ELSE NoAttr
  /\ ready' = ready

\* LlamaQueryExpander.cleanup(): `if self.model:` and `if self.tokenizer:`
\* read the attributes (AttributeError when one does not exist) and del
\* removes an attribute whose value is truthy; ready is cleared last.
cleanup_raises == model = NoAttr \/ tokenizer = NoAttr

cleanup ==
  /\ model' = IF model \in {"None", NoAttr} THEN model ELSE NoAttr
  /\ tokenizer' = IF model = NoAttr \/ tokenizer \in {"None", NoAttr}
                  THEN tokenizer ELSE NoAttr
  /\ ready' = IF cleanup_raises THEN ready ELSE FALSE

\* main.lifespan, lines 72-75: shutdown, once the server has drained the
\* requests in flight; cleanup() is called when the handler has one.
lifespan_shutdown ==
  /\ lifespan = "serving"
  /\ NoneInFlight
  /\ lifespan' = "stopped"
  /\ IF model_handler = "LlamaQueryExpander"
     THEN cleanup
     ELSE UNCHANGED <<model, tokenizer, ready>>
  /\ UNCHANGED <<model_handler, globals, load_calls, calls, running, metrics, queue, fn>>

\* ------------------------------------------------------------------------
\* The engine's expand_query and the gateway's handlers
\* ------------------------------------------------------------------------

\* A client may start call c: the event loop is free, the lifespan is not
\* inside startup or shutdown, and the slots are used in order.
CanStart(c) ==
  /\ running = 0
  /\ calls[c].st = "idle"
  /\ \A d \in Calls : d < c => calls[d].st # "idle"

\* hasattr(self.model, 'generate') and hasattr(self.tokenizer, 'decode'),
\* model_handler.py:181: "True", "False", or "AttributeError" when an
\* attribute that has to be read does not exist.
HasBackend ==
  IF model = NoAttr THEN "AttributeError"
  ELSE IF model = "None" THEN "False"
  ELSE IF tokenizer = NoAttr THEN "AttributeError"
  ELSE IF tokenizer = "None" THEN "False"
  ELSE "True"

\* Faulty variant: the `if not self.ready` check is missing.
engine_entry_unchecked ==
  IF model_handler = "MockModelHandler" THEN "handler sleep"
  ELSE IF HasBackend = "True" THEN "real"
  ELSE "mock"

\* Where a call of model_handler.expand_query(query) goes first:
\*   "handler sleep": MockModelHandler.expand_query (main.py:65-67);
\*   "RuntimeError":  the engine is not ready (model_handler.py:176-177);
\*   "real":          _expand_with_real_model (line 183);
\*   "mock":          _expand_with_mock_model, by the else branch (line
\*                    186) or by the except clause (line 190).
engine_entry ==
  IF model_handler = "MockModelHandler" THEN "handler sleep"
  ELSE IF ~ready THEN "RuntimeError"
  ELSE IF HasBackend = "True" THEN "real"
  ELSE "mock"

\* Faulty variant: the response echoes the request's query instead of
\* the engine's result.
EngineReturns_echo(c, rec, text) ==
  IF rec.op = "engine"
  THEN /\ calls' = [calls EXCEPT ![c] = [rec EXCEPT !.st = "done", !.ret = text]]
       /\ UNCHANGED REQUEST_LATENCY
  ELSE /\ calls' = [calls EXCEPT ![c] =
                      [rec EXCEPT !.st = "done",
                                  !.ret = text,
                                  !.task = mlflow_logger,
                                  !.status = 200,
                                  !.original_query = rec.query,
                                  !.expanded_query = rec.query,
                                  !.queued = FALSE]]
       /\ REQUEST_LATENCY' = REQUEST_LATENCY + 1

\* Faulty variant: the synchronous path records no latency sample.
EngineReturns_unobserved(c, rec, text) ==
  IF rec.op = "engine"
  THEN /\ calls' = [calls EXCEPT ![c] = [rec EXCEPT !.st = "done", !.ret = text]]
       /\ UNCHANGED REQUEST_LATENCY
  ELSE /\ calls' = [calls EXCEPT ![c] =
                      [rec EXCEPT !.st = "done",
                                  !.ret = text,
                                  !.task = mlflow_logger,
                                  !.status = 200,
                                  !.original_query = rec.query,
                                  !.expanded_query = text,
                                  !.queued = FALSE]]
       /\ UNCHANGED REQUEST_LATENCY

\* The engine's expand_query returns `text` to call c (rec is the call's
\* record so far).  For POST /expand this is main.py:142-163: the logging
\* task is added when a logger exists, the latency is observed, and the
\* response is built; none of these suspends.
EngineReturns(c, rec, text) ==
  IF rec.op = "engine"
  THEN /\ calls' = [calls EXCEPT ![c] = [rec EXCEPT !.st = "done", !.ret = text]]
       /\ UNCHANGED REQUEST_LATENCY
  ELSE /\ calls' = [calls EXCEPT ![c] =
                      [rec EXCEPT !.st = "done",
                                  !.ret = text,
                                  !.task = mlflow_logger,
                                  !.status = 200,
                                  !.original_query = rec.query,
                                  !.expanded_query = text,
                                  !.queued = FALSE]]
       /\ REQUEST_LATENCY' = REQUEST_LATENCY + 1

\* The call enters _expand_with_mock_model: the result is computed, then
\* the coroutine suspends in asyncio.sleep (model_handler.py:283).
EnterMock(c, rec) ==
  calls' = [calls EXCEPT ![c] =
              [rec EXCEPT !.st = "sleeping",
                          !.mock_calls = rec.mock_calls + 1,
                          !.mock_out = expand_with_mock_model(rec.query),
                          !.pending = expand_with_mock_model(rec.query)]]

\* The except clause of main.expand_query (main.py:165-168): the error
\* counter is incremented and HTTP 500 is answered.
ExceptStatus == 500

\* Call c invokes model_handler.expand_query(rec.query).
EnterEngine(c, rec0) ==
  LET rec == [rec0 EXCEPT !.engine_calls = rec0.engine_calls + 1]
  IN CASE engine_entry = "RuntimeError" ->
            /\ calls' = [calls EXCEPT ![c] =
                 IF rec.op = "engine"
                 THEN [rec EXCEPT !.st = "done", !.raised = "RuntimeError"]
                 ELSE [rec EXCEPT !.st = "done", !.status = ExceptStatus]]
            /\ ERROR_COUNT' = ERROR_COUNT + (IF rec.op = "engine" THEN 0 ELSE 1)
            /\ UNCHANGED running
       [] engine_entry = "real" ->
            /\ calls' = [calls EXCEPT ![c] =
                 [rec EXCEPT !.st = "generating",
                             !.real_calls = rec.real_calls + 1]]
            /\ running' = c
            /\ UNCHANGED ERROR_COUNT
       [] engine_entry = "mock" ->
            /\ EnterMock(c, rec)
            /\ UNCHANGED <<running, ERROR_COUNT>>
       [] engine_entry = "handler sleep" ->
            /\ calls' = [calls EXCEPT ![c] =
                 [rec EXCEPT !.st = "sleeping",
                             !.pending = MockHandlerPrefix \o rec.query]]
            /\ UNCHANGED <<running, ERROR_COUNT>>

\* What main.expand_query answers when the readiness check of line 122
\* fails: HTTPException(503) is raised inside the try block, and since
\* HTTPException is an Exception the except clause of line 165 catches
\* it.  status: the status answered; errors: increments of ERROR_COUNT.
not_ready_answer == [status |-> ExceptStatus, errors |-> 2]

\* `not model_handler or not model_handler.is_ready()` (main.py:122),
\* when is_ready() returns.
engine_not_ready == model_handler = "None" \/ is_ready = "False"

\* Faulty variant: the queue hand-off is tested before the readiness
\* check.
post_expand_queue_first(c, q, uq) ==
  /\ CanStart(c)
  /\ lifespan \in Stable
  /\ REQUEST_COUNT' = REQUEST_COUNT + 1
  /\ LET rec == [IdleCall EXCEPT !.op = "expand", !.query = q, !.use_queue = uq]
     IN IF uq /\ sqs_handler
        THEN /\ calls' = [calls EXCEPT ![c] =
                  [rec EXCEPT !.st = "sending", !.sent = 1]]
             /\ UNCHANGED <<running, ERROR_COUNT>>
        ELSE IF engine_not_ready
        THEN /\ calls' = [calls EXCEPT ![c] =
                  [rec EXCEPT !.st = "done", !.status = not_ready_answer.status]]
             /\ ERROR_COUNT' = ERROR_COUNT + not_ready_answer.errors
             /\ UNCHANGED running
        ELSE IF is_ready = "AttributeError"
        THEN /\ calls' = [calls EXCEPT ![c] =
                  [rec EXCEPT !.st = "done", !.status = ExceptStatus]]
             /\ ERROR_COUNT' = ERROR_COUNT + 1
             /\ UNCHANGED running
        ELSE EnterEngine(c, rec)
  /\ UNCHANGED <<lifespan, engine, globals, load_calls, REQUEST_LATENCY, queue, fn>>

\* POST /expand (main.expand_query) up to its first suspension point.
post_expand(c, q, uq) ==
  /\ CanStart(c)
  /\ lifespan \in Stable
  /\ REQUEST_COUNT' = REQUEST_COUNT + 1
  /\ LET rec == [IdleCall EXCEPT !.op = "expand", !.query = q, !.use_queue = uq]
     IN IF engine_not_ready
        THEN /\ calls' = [calls EXCEPT ![c] =
                  [rec EXCEPT !.st = "done", !.status = not_ready_answer.status]]
             /\ ERROR_COUNT' = ERROR_COUNT + not_ready_answer.errors
             /\ UNCHANGED running
        ELSE IF is_ready = "AttributeError"
        THEN /\ calls' = [calls EXCEPT ![c] =
                  [rec EXCEPT !.st = "done", !.status = ExceptStatus]]
             /\ ERROR_COUNT' = ERROR_COUNT + 1
             /\ UNCHANGED running
        ELSE IF uq /\ sqs_handler
        THEN /\ calls' = [calls EXCEPT ![c] =
                  [rec EXCEPT !.st = "sending", !.sent = 1]]
             /\ UNCHANGED <<running, ERROR_COUNT>>
        ELSE EnterEngine(c, rec)
  /\ UNCHANGED <<lifespan, engine, globals, load_calls, REQUEST_LATENCY, queue, fn>>

\* LlamaQueryExpander.expand_query(q) called directly on the engine object
\* (as the unit tests do), up to its first suspension point.  The engine
\* exists from its construction on.
engine_expand_query(c, q) ==
  /\ CanStart(c)
  /\ lifespan \in Stable \cup {"constructed"}
  /\ model_handler = "LlamaQueryExpander"
  /\ EnterEngine(c, [IdleCall EXCEPT !.op = "engine", !.query = q])
  /\ UNCHANGED <<lifespan, engine, globals, load_calls, REQUEST_COUNT,
                 REQUEST_LATENCY, queue, fn>>

\* What the stub tokenizer's decode returns, whatever the tokens
\* (MockTokenizer.decode in _create_mock_model).
StubDecoded == <<"e","x","p","a","n","d","e","d"," ","q","u","e","r","y"," ","w","i","t","h"," ","m","a","c","h","i","n","e"," ","l","e","a","r","n","i","n","g"," ","a","l","g","o","r","i","t","h","m","s">>   \* 'expanded query with machine learning algorithms'

\* Faulty variant: the stub tokenizer's output passes through the real
\* path, so with the stubs installed the path returns what it extracts
\* from the canned decode text.
real_path_returns_from_stub(c, generated_text) ==
  /\ running = c
  /\ calls[c].st = "generating"
  /\ running' = 0
  /\ EngineReturns(c, calls[c],
                   RealResult(IF tokenizer = "stub" THEN StubDecoded ELSE generated_text,
                              calls[c].query))
  /\ UNCHANGED <<lifespan, engine, globals, load_calls, REQUEST_COUNT,
                 ERROR_COUNT, queue, fn>>

\* _expand_with_real_model runs to its return (model_handler.py:194-238):
\* no step raises and the tokenizer decodes the output to generated_text.
\* The stub tokenizer returns a dict, which has no `to`, so with it the
\* real path cannot get past line 205.
real_path_returns(c, generated_text) ==
  /\ running = c
  /\ calls[c].st = "generating"
  /\ tokenizer # "stub"
  /\ running' = 0
  /\ EngineReturns(c, calls[c], RealResult(generated_text, calls[c].query))
  /\ UNCHANGED <<lifespan, engine, globals, load_calls, REQUEST_COUNT,
                 ERROR_COUNT, queue, fn>>

\* Faulty variant: the error of the real path is not absorbed; it reaches
\* the caller (for POST /expand, the except clause of main.expand_query).
real_path_raises_propagates(c, stage) ==
  /\ running = c
  /\ calls[c].st = "generating"
  /\ tokenizer = "stub" => stage = "tokenize"
  /\ running' = 0
  /\ calls' = [calls EXCEPT ![c] =
       IF calls[c].op = "engine"
       THEN [@ EXCEPT !.st = "done", !.real_raised = TRUE, !.raised = "Exception"]
       ELSE [@ EXCEPT !.st = "done", !.real_raised = TRUE, !.status = ExceptStatus]]
  /\ ERROR_COUNT' = ERROR_COUNT + (IF calls[c].op = "engine" THEN 0 ELSE 1)
  /\ UNCHANGED <<lifespan, engine, globals, load_calls, REQUEST_COUNT,
                 REQUEST_LATENCY, queue, fn>>

\* _expand_with_real_model raises at `stage`; its except clause (lines
\* 240-242) calls _expand_with_mock_model.
real_path_raises(c, stage) ==
  /\ running = c
  /\ calls[c].st = "generating"
  /\ tokenizer = "stub" => stage = "tokenize"
  /\ running' = 0
  /\ EnterMock(c, [calls[c] EXCEPT !.real_raised = TRUE])
  /\ UNCHANGED <<lifespan, engine, globals, load_calls, metrics, queue, fn>>

\* Faulty variant: the result handed back when a sleep ends is the one of
\* whichever suspended call comes first, not the call's own.
wake_shared_result(c) ==
  /\ running = 0
  /\ calls[c].st = "sleeping"
  /\ LET first == CHOOSE d \in Calls :
                    /\ calls[d].st = "sleeping"
                    /\ \A e \in Calls : calls[e].st = "sleeping" => d <= e
     IN EngineReturns(c, calls[c], calls[first].pending)
  /\ UNCHANGED <<lifespan, engine, globals, load_calls, running, REQUEST_COUNT,
                 ERROR_COUNT, queue, fn>>

\* asyncio.sleep ends: the suspended coroutine returns its result.
wake(c) ==
  /\ running = 0
  /\ calls[c].st = "sleeping"
  /\ EngineReturns(c, calls[c], calls[c].pending)
  /\ UNCHANGED <<lifespan, engine, globals, load_calls, running, REQUEST_COUNT,
                 ERROR_COUNT, queue, fn>>

\* Faulty variant: a successful send is repeated, so the queue receives
\* the message twice.
send_message_done_twice(c, ok) ==
  /\ running = 0
  /\ calls[c].st = "sending"
  /\ IF ok
     THEN /\ queue' = Append(Append(queue, calls[c].query), calls[c].query)
          /\ calls' = [calls EXCEPT ![c] =
               [@ EXCEPT !.st = "done",
                         !.send = "ok",
                         !.sent = 2,
                         !.status = 200,
                         !.original_query = calls[c].query,
                         !.expanded_query = QueuedPlaceholder,
                         !.queued = TRUE]]
          /\ UNCHANGED ERROR_COUNT
     ELSE /\ calls' = [calls EXCEPT ![c] =
               [@ EXCEPT !.st = "done", !.send = "error", !.status = ExceptStatus]]
          /\ ERROR_COUNT' = ERROR_COUNT + 1
          /\ UNCHANGED queue
  /\ UNCHANGED <<lifespan, engine, globals, load_calls, running, REQUEST_COUNT,
                 REQUEST_LATENCY, fn>>

\* Faulty variant: a failed send is swallowed and the request falls back
\* to synchronous expansion.
send_message_done_falls_back(c, ok) ==
  /\ running = 0
  /\ calls[c].st = "sending"
  /\ IF ok
     THEN /\ queue' = Append(queue, calls[c].query)
          /\ calls' = [calls EXCEPT ![c] =
               [@ EXCEPT !.st = "done",
                         !.send = "ok",
                         !.status = 200,
                         !.original_query = calls[c].query,
                         !.expanded_query = QueuedPlaceholder,
                         !.queued = TRUE]]
          /\ UNCHANGED <<running, ERROR_COUNT>>
     ELSE /\ EnterEngine(c, [calls[c] EXCEPT !.send = "error"])
          /\ UNCHANGED queue
  /\ UNCHANGED <<lifespan, engine, globals, load_calls, REQUEST_COUNT,
                 REQUEST_LATENCY, fn>>

\* sqs_handler.send_message completes (main.py:129-139).  On success the
\* queue holds the message and the queued response is returned; a raised
\* error reaches the except clause of main.expand_query.
send_message_done(c, ok) ==
  /\ running = 0
  /\ calls[c].st = "sending"
  /\ IF ok
     THEN /\ queue' = Append(queue, calls[c].query)
          /\ calls' = [calls EXCEPT ![c] =
               [@ EXCEPT !.st = "done",
                         !.send = "ok",
                         !.status = 200,
                         !.original_query = calls[c].query,
                         !.expanded_query = QueuedPlaceholder,
                         !.queued = TRUE]]
          /\ UNCHANGED ERROR_COUNT
     ELSE /\ calls' = [calls EXCEPT ![c] =
               [@ EXCEPT !.st = "done", !.send = "error", !.status = ExceptStatus]]
          /\ ERROR_COUNT' = ERROR_COUNT + 1
          /\ UNCHANGED queue
  /\ UNCHANGED <<lifespan, engine, globals, load_calls, running, REQUEST_COUNT,
                 REQUEST_LATENCY, fn>>

\* GET /health (main.health_check): the body returned, or the exception
\* that escapes the handler.
health_answer ==
  IF model_handler = "None" THEN [status |-> 200, health |-> "unhealthy", model_loaded |-> FALSE]
  ELSE IF is_ready = "AttributeError" THEN [status |-> 500, health |-> "", model_loaded |-> FALSE]
  ELSE IF is_ready = "True" THEN [status |-> 200, health |-> "healthy", model_loaded |-> TRUE]
  ELSE [status |-> 200, health |-> "unhealthy", model_loaded |-> FALSE]

health_check(c) ==
  /\ CanStart(c)
  /\ lifespan \in Stable
  /\ calls' = [calls EXCEPT ![c] =
       [IdleCall EXCEPT !.op = "health",
                        !.st = "done",
                        !.status = health_answer.status,
                        !.health = health_answer.health,
                        !.model_loaded = health_answer.model_loaded]]
  /\ UNCHANGED <<lifespan, engine, globals, load_calls, running, metrics, queue, fn>>

\* The keys of the /queue/status body for each way the handler returns
\* (main.py:173-180, queue_handler.py:71-74).
StatusDisabledKeys == {"queue_enabled"}
StatusDepthKeys == {"queue_enabled", "messages_available", "messages_in_flight"}
StatusErrorKeys == {"queue_enabled", "error"}

\* GET /queue/status (main.queue_status) up to its first suspension point:
\* without a queue handler the body is returned at once, otherwise the
\* handler awaits sqs_handler.get_queue_status().
queue_status(c) ==
  /\ CanStart(c)
  /\ lifespan \in Stable
  /\ calls' = [calls EXCEPT ![c] =
       IF ~sqs_handler
       THEN [IdleCall EXCEPT !.op = "queue_status",
                             !.st = "done",
                             !.status = 200,
                             !.queue_enabled = FALSE,
                             !.body = StatusDisabledKeys]
       ELSE [IdleCall EXCEPT !.op = "queue_status", !.st = "status"]]
  /\ UNCHANGED <<lifespan, engine, globals, load_calls, running, metrics, queue, fn>>

\* Faulty variant: an error of the collaborator escapes the handler.
get_queue_status_done_raises(c, ok) ==
  /\ running = 0
  /\ calls[c].st = "status"
  /\ calls' = [calls EXCEPT ![c] =
       IF ok
       THEN [@ EXCEPT !.st = "done",
                      !.get_status = "ok",
                      !.status = 200,
                      !.queue_enabled = TRUE,
                      !.body = StatusDepthKeys]
       ELSE [@ EXCEPT !.st = "done",
                      !.get_status = "error",
                      !.status = ExceptStatus]]
  /\ UNCHANGED <<lifespan, engine, globals, load_calls, running, metrics, queue, fn>>

\* sqs_handler.get_queue_status() completes (main.py:176-180): its dict is
\* merged into the body, or the exception it raised is caught and its
\* text returned under "error".
get_queue_status_done(c, ok) ==
  /\ running = 0
  /\ calls[c].st = "status"
  /\ calls' = [calls EXCEPT ![c] =
       IF ok
       THEN [@ EXCEPT !.st = "done",
                      !.get_status = "ok",
                      !.status = 200,
                      !.queue_enabled = TRUE,
                      !.body = StatusDepthKeys]
       ELSE [@ EXCEPT !.st = "done",
                      !.get_status = "error",
                      !.status = 200,
                      !.queue_enabled = TRUE,
                      !.body = StatusErrorKeys]]
  /\ UNCHANGED <<lifespan, engine, globals, load_calls, running, metrics, queue, fn>>

\* ------------------------------------------------------------------------
\* The service
\* ------------------------------------------------------------------------

Next ==
  \/ \E ok \in BOOLEAN : lifespan_construct(ok)
  \/ \E hf_token \in BOOLEAN : load_model_token(hf_token)
  \/ \E ok \in BOOLEAN : load_model_tokenizer(ok)
  \/ \E outcome \in LoadOutcomes : load_model_model(outcome)
  \/ \E outcome \in LoadOutcomes : load_model_fallback(outcome)
  \/ \E url \in BOOLEAN, ok \in BOOLEAN : lifespan_sqs(url, ok)
  \/ \E ok \in BOOLEAN : lifespan_mlflow(ok)
  \/ lifespan_shutdown
  \/ \E c \in Calls, q \in Queries, uq \in BOOLEAN : post_expand(c, q, uq)
  \/ \E c \in Calls, q \in Queries : engine_expand_query(c, q)
  \/ \E c \in Calls, t \in DecodedTexts : real_path_returns(c, t)
  \/ \E c \in Calls, stage \in FailStages : real_path_raises(c, stage)
  \/ \E c \in Calls : wake(c)
  \/ \E c \in Calls, ok \in BOOLEAN : send_message_done(c, ok)
  \/ \E c \in Calls : health_check(c)
  \/ \E c \in Calls : queue_status(c)
  \/ \E c \in Calls, ok \in BOOLEAN : get_queue_status_done(c, ok)

Spec == Init /\ [][Next]_vars

\* ------------------------------------------------------------------------
\* The engine's pure functions, called on one input
\* ------------------------------------------------------------------------

\* All texts over `alphabet` of length at most n.
RECURSIVE TextsUpTo(_, _)
TextsUpTo(alphabet, n) ==
  IF n = 0 THEN {<<>>}
  ELSE LET shorter == TextsUpTo(alphabet, n - 1)
       IN shorter \cup {Append(t, ch) : t \in {u \in shorter : Len(u) = n - 1},
                                       ch \in alphabet}

\* n times the character ch
Rep(ch, n) == [i \in 1..n |-> ch]

\* The longest generated query for the mock policy.
MockLen == 3

\* The letters of the trigger 'sci' and the blank: every arrangement of
\* them up to MockLen is a query.
MockAlphabet == {"s", "c", "i", " "}

MockSamples == {
  <<>>,                                                                  \* ''
  <<" ">>,                                                               \* ' '
  <<" "," ">>,                                                           \* '  '
  <<"\t">>,                                                              \* '\t'
  <<"a","l","r","e","a","d","y"," ","f","i","n","e"," ","p","h","r","a","s","e">>, \* 'already fine phrase'
  <<"x","y","z">>,                                                       \* 'xyz'
  <<"t","e","s","t"," ","q","u","e","r","y">>,                           \* 'test query'
  <<"d","e","e","p"," ","l","e","r","n","i","n","g"," ","m","o","d","e","l","s">>, \* 'deep lerning models'
  <<"d","a","t","a"," ","s","c","i","e","n","c","e">>,                   \* 'data science'
  <<"s","c","i","e","n","c","e">>,                                       \* 'science'
  <<"A","L","G","O">>,                                                   \* 'ALGO'
  <<"a","l","g","o","s">>,                                               \* 'algos'
  <<"m","l"," ","a","l","g","o","s">>,                                   \* 'ml algos'
  <<"a","l","g","o"," ","a","l","g","o","r","i","t","h","m">>,           \* 'algo algorithm'
  <<"l","e","r","n","i","n","g"," ","a","l","g","o"," ","e","n","g","i","n","e","r"," ","v","i","s","o","n">>, \* 'lerning algo enginer vison'
  <<"d","a","t","a"," ","s","c","i"," ","x"," ","y">>,                   \* 'data sci x y'
  <<" ","a","b">>,                                                       \* ' ab'
  <<"a","\t","b">>,                                                      \* 'a\tb'
  <<"a","b","c","d">>,                                                   \* 'abcd'
  <<"a","b","c","d","e">>,                                               \* 'abcde'
  <<"C","N","N"," ">>,                                                   \* 'CNN '
  <<"c","n","n">>                                                        \* 'cnn'
}

\* The queries the mock policy is called on: the keys of its table, the
\* samples and the generated texts.
MockInputs ==
  {p[1] : p \in expansions} \cup MockSamples \cup TextsUpTo(MockAlphabet, MockLen)

\* How far around the limits the generated responses reach.
CleanSlack == 2

\* The longest generated short response.
CleanLen == 3

CleanAlphabet == {"a", " ", Quote}

\* Runs of 'a' of the lengths around 0 and around MaxResponseLen, far
\* above it, and runs interrupted by blanks where the cut falls.
CleanBodies ==
  LET lens == (0..CleanSlack)
                \cup ((MaxResponseLen - CleanSlack)..(MaxResponseLen + CleanSlack))
                \cup {MaxResponseLen + 100}
  IN {Rep("a", n) : n \in lens}
       \cup {Rep("a", MaxResponseLen - k) \o Rep(" ", CleanSlack) \o Rep("a", k + 1) :
               k \in 0..CleanSlack}

\* The responses _clean_response is called on: every body with and
\* without a blank and a quote character on either side, and every short
\* text over CleanAlphabet.
CleanInputs ==
  {l \o q1 \o b \o q2 \o t :
     l \in {<<>>, <<" ">>}, q1 \in {<<>>, <<Quote>>}, b \in CleanBodies,
     q2 \in {<<>>, <<Quote>>}, t \in {<<>>, <<" ">>}}
    \cup TextsUpTo(CleanAlphabet, CleanLen)

\* The engine object exists and the event loop can run a caller's
\* coroutine on it.
EngineCallable ==
  /\ model_handler = "LlamaQueryExpander"
  /\ lifespan \in Stable \cup {"constructed"}

\* Run k of _expand_with_mock_model(fn.input) on the engine, up to its
\* suspension in asyncio.sleep; the second run may start while the first
\* is suspended.
mock_call(k) ==
  /\ fn.op = "mock"
  /\ EngineCallable
  /\ fn.runs[k].st = "idle"
  /\ k = 2 => fn.runs[1].st # "idle"
  /\ fn' = [fn EXCEPT !.runs[k] =
              [st |-> "sleeping",
               output |-> expand_with_mock_model(fn.input),
               at |-> <<model, tokenizer, ready>>]]
  /\ UNCHANGED <<lifespan, engine, globals, load_calls, calls, running, metrics, queue>>

\* asyncio.sleep ends and run k returns.
mock_return(k) ==
  /\ fn.op = "mock"
  /\ fn.runs[k].st = "sleeping"
  /\ fn' = [fn EXCEPT !.runs[k].st = "done"]
  /\ UNCHANGED <<lifespan, engine, globals, load_calls, calls, running, metrics, queue>>

\* _clean_response(fn.input) called on an engine object.
clean_call ==
  /\ fn.op = "clean"
  /\ fn.runs[1].st = "idle"
  /\ fn' = [fn EXCEPT !.runs[1] =
              [st |-> "done",
               output |-> clean_response(fn.input),
               at |-> <<model, tokenizer, ready>>]]
  /\ UNCHANGED <<lifespan, engine, globals, load_calls, calls, running, metrics, queue>>

\* The mock policy called twice on one query while the engine is started
\* and shut down.
InitMock ==
  /\ ServiceInit
  /\ fn \in {[NoFn EXCEPT !.op = "mock", !.input = q] : q \in MockInputs}

NextMock ==
  \/ \E ok \in BOOLEAN : lifespan_construct(ok)
  \/ \E hf_token \in BOOLEAN : load_model_token(hf_token)
  \/ \E ok \in BOOLEAN : load_model_tokenizer(ok)
  \/ \E outcome \in LoadOutcomes : load_model_model(outcome)
  \/ \E outcome \in LoadOutcomes : load_model_fallback(outcome)
  \/ \E url \in BOOLEAN, ok \in BOOLEAN : lifespan_sqs(url, ok)
  \/ \E ok \in BOOLEAN : lifespan_mlflow(ok)
  \/ lifespan_shutdown
  \/ \E k \in 1..2 : mock_call(k)
  \/ \E k \in 1..2 : mock_return(k)

SpecMock == InitMock /\ [][NextMock]_vars

\* Response cleaning called on one response.
InitClean ==
  /\ ServiceInit
  /\ fn \in {[NoFn EXCEPT !.op = "clean", !.input = r] : r \in CleanInputs}

NextClean == clean_call

SpecClean == InitClean /\ [][NextClean]_vars

\* ------------------------------------------------------------------------
\* The real path's extraction, called on one decoded text
\* ------------------------------------------------------------------------

\* The most chunks a generated decoded text is made of.
RealLen == 4

\* The chunks: the delimiter, a letter, a blank, a quote character.
RealChunks == {Delimiter, <<"a">>, <<" ">>, <<Quote>>}

\* Every concatenation of at most n chunks.
RECURSIVE ChunkTexts(_)
ChunkTexts(n) ==
  IF n = 0 THEN {<<>>}
  ELSE LET shorter == ChunkTexts(n - 1)
       IN shorter \cup {t \o ch : t \in shorter, ch \in RealChunks}

\* The decoded texts and the queries the extraction is run on.
RealInputs == ChunkTexts(RealLen) \cup DecodedTexts
RealQueries == Queries \cup {<<" ", Quote, "x", Quote>>}   \* ' "x"'

\* Lines 226-238 of _expand_with_real_model run on the decoded text
\* fn.input for the query fn.query, no step raising.
real_call ==
  /\ fn.op = "real"
  /\ fn.runs[1].st = "idle"
  /\ fn' = [fn EXCEPT !.runs[1] =
              [st |-> "done",
               output |-> RealResult(fn.input, fn.query),
               at |-> <<model, tokenizer, ready>>]]
  /\ UNCHANGED <<lifespan, engine, globals, load_calls, calls, running, metrics, queue>>

InitReal ==
  /\ ServiceInit
  /\ fn \in {[op |-> "real", input |-> t, query |-> q, runs |-> <<IdleRun, IdleRun>>] :
               t \in RealInputs, q \in RealQueries}

NextReal == real_call

SpecReal == InitReal /\ [][NextReal]_vars

\* ------------------------------------------------------------------------
\* The experiment logger: MLflowLogger (docker/app/logging_handler.py)
\* ------------------------------------------------------------------------

\* The calls on the tracking collaborator that log_query_expansion makes
\* inside its try block, in order (logging_handler.py:32-47); "end_run" is
\* the exit of the `with mlflow.start_run(...)` block.  The fourth
\* log_metric carries the expansion ratio.
QueryExpansionSteps ==
  <<"start_run",
    "log_param", "log_param", "log_param",
    "log_metric", "log_metric", "log_metric", "expansion_ratio",
    "set_tag", "set_tag", "set_tag",
    "end_run">>

\* The calls log_system_metrics makes for a metrics dict whose values are,
\* in order, of the kinds given (logging_handler.py:55-63): log_metric for
\* an int or float, log_param for anything else.
SystemMetricsSteps(kinds) ==
  <<"start_run">>
    \o [i \in 1..Len(kinds) |-> IF kinds[i] = "number" THEN "log_metric" ELSE "log_param"]
    \o <<"set_tag", "set_tag", "end_run">>

\* len(expanded_query) / len(original_query) if len(original_query) > 0
\* else 1 (logging_handler.py:42), as the fraction <<numerator, denominator>>.
expansion_ratio(original_query, expanded_query) ==
  IF Len(original_query) > 0
  THEN <<Len(expanded_query), Len(original_query)>>
  ELSE <<1, 1>>

\* The most entries a metrics dict passed to log_system_metrics has.
MaxMetrics == 2

ValueKinds == {"number", "other"}

RECURSIVE KindsUpTo(_)
KindsUpTo(n) ==
  IF n = 0 THEN {<<>>}
  ELSE LET shorter == KindsUpTo(n - 1)
       IN shorter \cup {Append(k, v) : k \in {u \in shorter : Len(u) = n - 1},
                                       v \in ValueKinds}

\* The queries and expansions log_query_expansion is called on.
LogQueries == {<<>>, <<"a">>, <<"C","N","N">>}
LogExpansions == {<<>>, <<"a","b">>, <<"C","N","N">>}

NoRatio == <<0, 0>>

\* One call of a log operation: `steps` are the collaborator calls ahead,
\* pc counts those that have returned, `failed` tells whether one raised,
\* error_logged whether the except clause ran, raised whether an exception
\* left the operation, ratio the expansion ratio handed to log_metric.
LogCall(op, original_query, expanded_query, steps) ==
  [op |-> op,
   original_query |-> original_query,
   expanded_query |-> expanded_query,
   steps |-> steps,
   pc |-> 0,
   st |-> "running",
   failed |-> FALSE,
   error_logged |-> FALSE,
   raised |-> FALSE,
   ratio |-> NoRatio]

LogOps == {"log_query_expansion", "log_system_metrics"}

\* Faulty variant: an exception of the collaborator leaves the operation.
log_step_propagates(ok) ==
  /\ fn.op \in LogOps
  /\ fn.st = "running"
  /\ fn' = IF ~ok
           THEN [fn EXCEPT !.st = "done", !.failed = TRUE, !.raised = TRUE]
           ELSE [fn EXCEPT !.pc = fn.pc + 1,
                           !.st = IF fn.pc + 1 = Len(fn.steps) THEN "done" ELSE "running",
                           !.ratio = IF fn.steps[fn.pc + 1] = "expansion_ratio"
                                     THEN expansion_ratio(fn.original_query, fn.expanded_query)
                                     ELSE fn.ratio]
  /\ UNCHANGED <<lifespan, engine, globals, load_calls, calls, running, metrics, queue>>

\* The next collaborator call of the log operation returns (ok) or raises:
\* an exception raised anywhere in the try block is caught by `except
\* Exception`, logged, and the operation returns None
\* (logging_handler.py:49-50, 65-66).
log_step(ok) ==
  /\ fn.op \in LogOps
  /\ fn.st = "running"
  /\ fn' = IF ~ok
           THEN [fn EXCEPT !.st = "done", !.failed = TRUE, !.error_logged = TRUE]
           ELSE [fn EXCEPT !.pc = fn.pc + 1,
                           !.st = IF fn.pc + 1 = Len(fn.steps) THEN "done" ELSE "running",
                           !.ratio = IF fn.steps[fn.pc + 1] = "expansion_ratio"
                                     THEN expansion_ratio(fn.original_query, fn.expanded_query)
                                     ELSE fn.ratio]
  /\ UNCHANGED <<lifespan, engine, globals, load_calls, calls, running, metrics, queue>>

\* A log operation called on one input.
InitLog ==
  /\ ServiceInit
  /\ fn \in {LogCall("log_query_expansion", o, e, QueryExpansionSteps) :
               o \in LogQueries, e \in LogExpansions}
            \cup {LogCall("log_system_metrics", <<>>, <<>>, SystemMetricsSteps(k)) :
                    k \in KindsUpTo(MaxMetrics)}

NextLog == \E ok \in BOOLEAN : log_step(ok)

SpecLog == InitLog /\ [][NextLog]_vars

\* ------------------------------------------------------------------------
\* The engine's state transitions statement by statement, with a reader
\* ------------------------------------------------------------------------

\* In this part load_model, _create_mock_model and cleanup advance one
\* attribute assignment at a time, and is_ready() may be called by a reader
\* between any two of them.  The positions of `lifespan` inside them:
\*   "tokenizer", "model", "fallback": before the from_pretrained call of
\*       that name; "model.to", "fallback.to": the model is assigned, to()
\*       and eval() are ahead; "set ready": before line 129;
\*   "stub model", "stub tokenizer", "stub ready": before lines 169-171;
\*   "del model", "del tokenizer", "clear ready": before lines 308, 310, 317.

\* load_model, lines 42-45.
stmt_token(hf_token) ==
  /\ lifespan = "constructed"
  /\ lifespan' = IF hf_token THEN "tokenizer" ELSE "stub model"
  /\ UNCHANGED <<engine, globals, load_calls, calls, running, metrics, queue, fn>>

\* load_model, lines 49-62: self.tokenizer is assigned when from_pretrained
\* returns; the pad_token lines that follow may still raise.
stmt_tokenizer(outcome) ==
  /\ lifespan = "tokenizer"
  /\ tokenizer' = IF outcome = "from_pretrained raises" THEN tokenizer ELSE "real"
  /\ lifespan' = IF outcome = "ok" THEN "model" ELSE "stub model"
  /\ UNCHANGED <<model_handler, model, ready, globals, load_calls, calls, running,
                 metrics, queue, fn>>

\* load_model, lines 95-98 and 119-122: self.model is assigned when
\* from_pretrained returns.
stmt_from_pretrained(ok) ==
  /\ lifespan \in {"model", "fallback"}
  /\ load_calls' = load_calls + 1
  /\ model' = IF ok THEN "real" ELSE model
  /\ lifespan' = IF ok THEN (IF lifespan = "model" THEN "model.to" ELSE "fallback.to")
                 ELSE (IF lifespan = "model" THEN "fallback" ELSE "stub model")
  /\ UNCHANGED <<model_handler, tokenizer, ready, globals, calls, running, metrics,
                 queue, fn>>

\* load_model, lines 101-104 and 124-125: to() and eval() on the model.
stmt_to_eval(ok) ==
  /\ lifespan \in {"model.to", "fallback.to"}
  /\ lifespan' = IF ok THEN "set ready"
                 ELSE (IF lifespan = "model.to" THEN "fallback" ELSE "stub model")
  /\ UNCHANGED <<engine, globals, load_calls, calls, running, metrics, queue, fn>>

\* load_model, line 129: self.ready = True.
stmt_set_ready ==
  /\ lifespan = "set ready"
  /\ ready' = TRUE
  /\ lifespan' = "loaded"
  /\ UNCHANGED <<model_handler, model, tokenizer, globals, load_calls, calls, running,
                 metrics, queue, fn>>

\* _create_mock_model, lines 169-171, one assignment per step.
stmt_create_mock_model ==
  /\ lifespan \in {"stub model", "stub tokenizer", "stub ready"}
  /\ model' = IF lifespan = "stub model" THEN "stub" ELSE model
  /\ tokenizer' = IF lifespan = "stub tokenizer" THEN "stub" ELSE tokenizer
  /\ ready' = IF lifespan = "stub ready" THEN TRUE ELSE ready
  /\ lifespan' = CASE lifespan = "stub model" -> "stub tokenizer"
                   [] lifespan = "stub tokenizer" -> "stub ready"
                   [] lifespan = "stub ready" -> "loaded"
  /\ UNCHANGED <<model_handler, globals, load_calls, calls, running, metrics, queue, fn>>

\* main.lifespan, lines 72-75: shutdown begins; cleanup() is called when
\* the handler has one.
stmt_shutdown ==
  /\ lifespan = "serving"
  /\ NoneInFlight
  /\ lifespan' = IF model_handler = "LlamaQueryExpander" THEN "del model" ELSE "stopped"
  /\ UNCHANGED <<engine, globals, load_calls, calls, running, metrics, queue, fn>>

\* cleanup, lines 308-317, one statement per step: `if self.model: del
\* self.model`, `if self.tokenizer: del self.tokenizer`, then (after the
\* cache is emptied and the garbage collected) `self.ready = False`.
stmt_cleanup ==
  /\ lifespan \in {"del model", "del tokenizer", "clear ready"}
  /\ model' = IF lifespan = "del model" /\ model # "None" THEN NoAttr ELSE model
  /\ tokenizer' = IF lifespan = "del tokenizer" /\ tokenizer # "None"
                  THEN NoAttr ELSE tokenizer
  /\ ready' = IF lifespan = "clear ready" THEN FALSE ELSE ready
  /\ lifespan' = CASE lifespan = "del model" -> "del tokenizer"
                   [] lifespan = "del tokenizer" -> "clear ready"
                   [] lifespan = "clear ready" -> "stopped"
  /\ UNCHANGED <<model_handler, globals, load_calls, calls, running, metrics, queue, fn>>

\* What a reader last saw: the result of its is_ready() call and the
\* engine's attributes at that moment.
NoRead == [op |-> "is_ready", reads |-> 0, result |-> "", at |-> "",
           seen |-> <<>>]

\* The most is_ready() calls one reader makes.
MaxReads == 2

\* A reader (a thread other than the one running the transition) calls
\* is_ready() on the engine object.
is_ready_read ==
  /\ fn.op = "is_ready"
  /\ fn.reads < MaxReads
  /\ model_handler = "LlamaQueryExpander"
  /\ fn' = [fn EXCEPT !.reads = fn.reads + 1,
                      !.result = is_ready,
                      !.at = lifespan,
                      !.seen = <<model, tokenizer, ready>>]
  /\ UNCHANGED <<lifespan, engine, globals, load_calls, calls, running, metrics, queue>>

InitReader == ServiceInit /\ fn = NoRead

NextReader ==
  \/ \E ok \in BOOLEAN : lifespan_construct(ok)
  \/ \E hf_token \in BOOLEAN : stmt_token(hf_token)
  \/ \E outcome \in LoadOutcomes : stmt_tokenizer(outcome)
  \/ \E ok \in BOOLEAN : stmt_from_pretrained(ok)
  \/ \E ok \in BOOLEAN : stmt_to_eval(ok)
  \/ stmt_set_ready
  \/ stmt_create_mock_model
  \/ \E url \in BOOLEAN, ok \in BOOLEAN : lifespan_sqs(url, ok)
  \/ \E ok \in BOOLEAN : lifespan_mlflow(ok)
  \/ stmt_shutdown
  \/ stmt_cleanup
  \/ is_ready_read

SpecReader == InitReader /\ [][NextReader]_vars

\* ------------------------------------------------------------------------
\* POST /expand and its background logging task
\* ------------------------------------------------------------------------

\* The background tasks that have run: `ran` lists the calls whose task
\* has run, in order; `failed` holds those in which an MLflow call raised
\* (log_query_expansion catches it); `answered` holds, per run, the
\* response the client had at that moment.
NoTasks == [op |-> "tasks", ran |-> <<>>, failed |-> {}, answered |-> <<>>]

\* The response of call c as the client sees it.
Response(c) == <<calls[c].st, calls[c].status, calls[c].original_query,
                 calls[c].expanded_query, calls[c].queued>>

\* Faulty variant: the task runs as soon as it has been added or the
\* request is in flight, not after the response.
log_task_early(c, ok) ==
  /\ calls[c].op = "expand"
  /\ calls[c].st # "idle"
  /\ \A i \in 1..Len(fn.ran) : fn.ran[i] # c
  /\ fn' = [fn EXCEPT !.ran = Append(@, c),
                      !.failed = IF ok THEN @ ELSE @ \cup {c},
                      !.answered = Append(@, Response(c))]
  /\ UNCHANGED <<lifespan, engine, globals, load_calls, calls, running, metrics, queue>>

\* The task added by background_tasks.add_task (main.py:146-152) runs:
\* mlflow_logger.log_query_expansion(query, expanded_query,
\* processing_time).  Tasks added to the injected BackgroundTasks belong
\* to the response and run once it has been sent; the function is
\* synchronous, so it runs off the event loop.  ok = FALSE: an MLflow
\* call inside it raises, which its except clause only logs
\* (logging_handler.py:49-50).
log_task(c, ok) ==
  /\ calls[c].task
  /\ calls[c].st = "done"
  /\ \A i \in 1..Len(fn.ran) : fn.ran[i] # c
  /\ fn' = [fn EXCEPT !.ran = Append(@, c),
                      !.failed = IF ok THEN @ ELSE @ \cup {c},
                      !.answered = Append(@, Response(c))]
  /\ UNCHANGED <<lifespan, engine, globals, load_calls, calls, running, metrics, queue>>

InitTask == ServiceInit /\ fn = NoTasks

NextTask ==
  \/ \E ok \in BOOLEAN : lifespan_construct(ok)
  \/ \E hf_token \in BOOLEAN : load_model_token(hf_token)
  \/ \E ok \in BOOLEAN : load_model_tokenizer(ok)
  \/ \E outcome \in LoadOutcomes : load_model_model(outcome)
  \/ \E outcome \in LoadOutcomes : load_model_fallback(outcome)
  \/ \E url \in BOOLEAN, ok \in BOOLEAN : lifespan_sqs(url, ok)
  \/ \E ok \in BOOLEAN : lifespan_mlflow(ok)
  \/ \E c \in Calls, q \in Queries, uq \in BOOLEAN : post_expand(c, q, uq)
  \/ \E c \in Calls, t \in DecodedTexts : real_path_returns(c, t)
  \/ \E c \in Calls, stage \in FailStages : real_path_raises(c, stage)
  \/ \E c \in Calls : wake(c)
  \/ \E c \in Calls, ok \in BOOLEAN : send_message_done(c, ok)
  \/ \E c \in Calls, ok \in BOOLEAN : log_task(c, ok)

SpecTask == InitTask /\ [][NextTask]_vars

\* ------------------------------------------------------------------------
\* Properties
\* ------------------------------------------------------------------------

\* C1: a POST /expand request that arrives while the engine is not ready
\* (no engine handle, or is_ready() false) is answered with HTTP 503, for
\* either value of use_queue.
C1_NotReadyAnswers503 ==
  [][\A c \in Calls, q \in Queries, uq \in BOOLEAN :
       (post_expand(c, q, uq) /\ (model_handler = "None" \/ is_ready # "True"))
         => calls'[c].status = 503]_vars

\* The steps of startup.
startup_step ==
  \/ \E ok \in BOOLEAN : lifespan_construct(ok)
  \/ \E hf_token \in BOOLEAN : load_model_token(hf_token)
  \/ \E ok \in BOOLEAN : load_model_tokenizer(ok)
  \/ \E outcome \in LoadOutcomes : load_model_model(outcome)
  \/ \E outcome \in LoadOutcomes : load_model_fallback(outcome)
  \/ \E url \in BOOLEAN, ok \in BOOLEAN : lifespan_sqs(url, ok)
  \/ \E ok \in BOOLEAN : lifespan_mlflow(ok)

\* C2: startup always ends with a ready engine.  Inside startup a next
\* step is always possible, whatever failed before; and once startup has
\* completed (until shutdown) the engine handle is non-null, is_ready()
\* returns true, /health reports healthy and the readiness check of
\* /expand passes.
C2_StartupEndsReady ==
  /\ lifespan \notin Stable => ENABLED startup_step
  /\ lifespan = "serving" =>
       /\ model_handler # "None"
       /\ is_ready = "True"
       /\ health_answer = [status |-> 200, health |-> "healthy", model_loaded |-> TRUE]
       /\ ~engine_not_ready

\* Startup has completed after a failed load: the stubs are installed.
C2_Witness ==
  /\ lifespan = "serving"
  /\ model_handler = "LlamaQueryExpander"
  /\ model = "stub"
  /\ tokenizer = "stub"

\* The mock policy's output for each query of the service model.
MockOf == [q \in Queries |-> expand_with_mock_model(q)]

\* C3: when the engine is ready and the real path raises at any step,
\* expand_query raises nothing and returns exactly the mock policy's
\* output for the same query, so POST /expand answers HTTP 200 with it.
C3_RealPathErrorAbsorbed ==
  \A c \in Calls :
    calls[c].real_raised =>
      /\ calls[c].raised = ""
      /\ calls[c].status \in {0, 200}
      /\ calls[c].st \in {"sleeping", "done"}
      /\ calls[c].st = "done" =>
           /\ calls[c].ret = MockOf[calls[c].query]
           /\ calls[c].op = "expand" =>
                /\ calls[c].status = 200
                /\ calls[c].expanded_query = MockOf[calls[c].query]

\* The real backend raised during a POST /expand, which has been answered.
C3_Witness ==
  \E c \in Calls :
    /\ calls[c].op = "expand"
    /\ calls[c].real_raised
    /\ calls[c].st = "done"
    /\ tokenizer = "real"

\* C4: for every input query the mock policy's output differs from the
\* query.
C4_MockOutputDiffers ==
  \A k \in 1..2 :
    (fn.op = "mock" /\ fn.runs[k].st # "idle") => fn.runs[k].output # fn.input

\* The policy has run on a query that no rule touches.
C4_Witness ==
  /\ fn.op = "mock"
  /\ fn.runs[1].st = "done"
  /\ ~InExpansions(fn.input)
  /\ AddContext(fn.input, Repairs(fn.input)) = fn.input
  /\ fn.runs[1].output = EnhancedMarker \o fn.input

QueueCount(q) == Cardinality({i \in 1..Len(queue) : queue[i] = q})

\* C6: with use_queue true, a queue configured, the engine ready and a
\* successful send, POST /expand hands exactly one message carrying the
\* query to the queue and returns queued=true without invoking the
\* engine's expand operation.
C6_QueueBranch ==
  /\ \A c \in Calls :
       (lifespan = "serving" /\ calls[c].op = "expand" /\ calls[c].use_queue /\ sqs_handler)
         => calls[c].sent = 1 /\ calls[c].engine_calls = 0
  /\ \A c \in Calls :
       (calls[c].op = "expand" /\ calls[c].use_queue /\ calls[c].send = "ok") =>
         /\ calls[c].st = "done"
         /\ calls[c].status = 200
         /\ calls[c].queued
         /\ calls[c].sent = 1
         /\ calls[c].engine_calls = 0
         /\ calls[c].real_calls = 0
         /\ calls[c].mock_calls = 0
  /\ \A q \in Queries :
       QueueCount(q) = Cardinality({c \in Calls : calls[c].send = "ok" /\ calls[c].query = q})

\* A request has been queued.
C6_Witness ==
  \E c \in Calls :
    /\ calls[c].op = "expand"
    /\ calls[c].use_queue
    /\ calls[c].send = "ok"
    /\ calls[c].queued
    /\ Len(queue) = 1

\* What the handler's expand_query can return, for each query of the
\* service model: the mock policy's output, MockModelHandler's text, or
\* the real path's result for a decoded text.
EngineResults ==
  [q \in Queries |->
     {expand_with_mock_model(q), MockHandlerPrefix \o q}
       \cup {RealResult(t, q) : t \in DecodedTexts}]

\* C7: in every successful /expand response, queued is true exactly when
\* the request had use_queue=true and a queue is configured; a queued
\* response carries the placeholder, a response that is not queued carries
\* the engine's result for the request's query, and original_query is the
\* request's query.
C7_ResponseShape ==
  \A c \in Calls :
    (calls[c].op = "expand" /\ calls[c].status = 200) =>
      /\ calls[c].queued <=> (calls[c].use_queue /\ sqs_handler)
      /\ calls[c].queued => calls[c].expanded_query = QueuedPlaceholder
      /\ ~calls[c].queued =>
           /\ calls[c].engine_calls = 1
           /\ calls[c].expanded_query = calls[c].ret
           /\ calls[c].ret \in EngineResults[calls[c].query]
      /\ calls[c].original_query = calls[c].query

\* One request has been answered queued and another one synchronously.
C7_Witness ==
  \E c, d \in Calls :
    /\ calls[c].op = "expand" /\ calls[c].status = 200 /\ calls[c].queued
    /\ calls[d].op = "expand" /\ calls[d].status = 200 /\ ~calls[d].queued

\* C8: GET /health never fails in any reachable state: it answers HTTP
\* 200, healthy with model_loaded true exactly when an engine handle
\* exists and its is_ready() is true, unhealthy with model_loaded false
\* otherwise.
C8_HealthNeverFails ==
  /\ lifespan \in Stable =>
       health_answer =
         IF model_handler # "None" /\ is_ready = "True"
         THEN [status |-> 200, health |-> "healthy", model_loaded |-> TRUE]
         ELSE [status |-> 200, health |-> "unhealthy", model_loaded |-> FALSE]
  /\ \A c \in Calls :
       calls[c].op = "health" =>
         /\ calls[c].status = 200
         /\ \/ calls[c].health = "healthy" /\ calls[c].model_loaded
            \/ calls[c].health = "unhealthy" /\ ~calls[c].model_loaded

\* /health has been asked after cleanup removed the engine's model.
C8_Witness ==
  \E c \in Calls :
    /\ lifespan = "stopped"
    /\ model = NoAttr
    /\ calls[c].op = "health"
    /\ calls[c].health = "unhealthy"

\* C9: a newly constructed engine is not ready (model and tokenizer None,
\* is_ready() false), and expand_query called on an engine that is not
\* ready raises the not-loaded error without calling the backend or the
\* mock policy.
C9_NotReadyEngineRaises ==
  [][/\ (lifespan = "init" /\ lifespan' = "constructed") =>
          (model' = "None" /\ tokenizer' = "None" /\ ~ready' /\ is_ready' = "False")
     /\ \A c \in Calls, q \in Queries :
          (engine_expand_query(c, q) /\ ~ready) =>
            /\ calls'[c].st = "done"
            /\ calls'[c].raised = "RuntimeError"
            /\ calls'[c].ret = NoText
            /\ calls'[c].real_calls = 0
            /\ calls'[c].mock_calls = 0]_vars

\* expand_query has been called on the newly constructed engine.
C9_Witness ==
  \E c \in Calls :
    /\ lifespan = "constructed"
    /\ calls[c].op = "engine"
    /\ calls[c].raised = "RuntimeError"

\* C10: the result of response cleaning has length at most 200, and an
\* input that is at most 200 characters long, has no surrounding
\* whitespace and no enclosing quotes (a quote character at each of two
\* end positions) is returned unchanged.
C10_CleanBoundedAndIdentity ==
  LET enclosed == /\ Len(fn.input) >= 2
                  /\ fn.input[1] = Quote
                  /\ fn.input[Len(fn.input)] = Quote
  IN (fn.op = "clean" /\ fn.runs[1].st = "done") =>
       /\ Len(fn.runs[1].output) <= MaxResponseLen
       /\ (/\ Len(fn.input) <= MaxResponseLen
           /\ Strip(fn.input) = fn.input
           /\ ~enclosed)
            => fn.runs[1].output = fn.input

\* C11: response cleaning removes enclosing double quotes only when the
\* trimmed text starts and ends with a pair of quote characters at two
\* distinct positions, and then removes exactly that one pair; a text that
\* is a single quote character is left as it is.
C11_QuotesRemovedOnlyAsPair ==
  LET trimmed == Strip(fn.input)
      pair == /\ Len(trimmed) >= 2
              /\ trimmed[1] = Quote
              /\ trimmed[Len(trimmed)] = Quote
  IN (fn.op = "clean" /\ fn.runs[1].st = "done") =>
       fn.runs[1].output =
         LimitLength(IF pair THEN DropFirstAndLast(trimmed) ELSE trimmed)

\* C12: when cleanup() is called on an engine whose model and tokenizer
\* are set and whose ready flag is true, afterwards the model reads as
\* None, the tokenizer reads as None, and ready is false.
C12_CleanupLeavesNone ==
  [][(/\ lifespan = "serving"
      /\ lifespan' = "stopped"
      /\ model_handler = "LlamaQueryExpander"
      /\ model \in {"real", "stub"}
      /\ tokenizer \in {"real", "stub"}
      /\ ready)
       => (model' = "None" /\ tokenizer' = "None" /\ ~ready')]_vars

\* C13: with use_queue true, a queue configured, the engine ready and a
\* failing queue send, POST /expand answers HTTP 500: the request is not
\* handed to the engine and no queued=true response is produced.
C13_QueueFailureIs500 ==
  \A c \in Calls :
    (calls[c].op = "expand" /\ calls[c].send = "error") =>
      /\ calls[c].st = "done"
      /\ calls[c].status = 500
      /\ ~calls[c].queued
      /\ calls[c].expanded_query = NoText
      /\ calls[c].engine_calls = 0
      /\ calls[c].mock_calls = 0
      /\ calls[c].real_calls = 0
      /\ QueueCount(calls[c].query) =
           Cardinality({d \in Calls : /\ calls[d].send = "ok"
                                      /\ calls[d].query = calls[c].query})

C13_Witness ==
  \E c \in Calls :
    /\ calls[c].op = "expand"
    /\ calls[c].use_queue
    /\ calls[c].send = "error"
    /\ calls[c].status = 500
    /\ sqs_handler

\* The POST /expand requests that have reached the handler.
ExpandRequests == {c \in Calls : calls[c].op = "expand"}

\* C14: the request counter equals the number of POST /expand requests
\* that reached the handler, whatever their outcome, and the number of
\* latency samples equals the number of requests that completed
\* successfully on the synchronous path; queued responses and failed
\* requests record no sample.
C14_RequestAndLatencyCounts ==
  /\ REQUEST_COUNT = Cardinality(ExpandRequests)
  /\ REQUEST_LATENCY =
       Cardinality({c \in ExpandRequests : /\ calls[c].st = "done"
                                           /\ calls[c].status = 200
                                           /\ ~calls[c].queued})

C14_Witness ==
  /\ REQUEST_COUNT = 2
  /\ REQUEST_LATENCY = 1
  /\ \E c \in ExpandRequests : calls[c].status = 200 /\ calls[c].queued
  /\ \E c \in ExpandRequests : calls[c].status = 200 /\ ~calls[c].queued

\* C15: the error counter equals the number of POST /expand requests that
\* ended on a failure path: each failed request increments it exactly
\* once and a request answered with HTTP 200 never increments it.
C15_ErrorCountIsFailures ==
  ERROR_COUNT =
    Cardinality({c \in ExpandRequests : /\ calls[c].st = "done"
                                        /\ calls[c].status # 200})

\* C16: GET /queue/status never fails: it answers queue_enabled=false and
\* nothing else exactly when no queue is configured; with a queue it
\* answers queue_enabled=true with the two depth attributes when the
\* collaborator answers, and queue_enabled=true with an error text when
\* the collaborator raises.
C16_QueueStatusNeverFails ==
  \A c \in Calls :
    (calls[c].op = "queue_status" /\ calls[c].st = "done") =>
      /\ calls[c].status = 200
      /\ calls[c].queue_enabled = sqs_handler
      /\ ~sqs_handler => calls[c].body = StatusDisabledKeys
      /\ (sqs_handler /\ calls[c].get_status = "ok") =>
           calls[c].body = StatusDepthKeys
      /\ (sqs_handler /\ calls[c].get_status = "error") =>
           calls[c].body = StatusErrorKeys
      /\ sqs_handler => calls[c].get_status \in {"ok", "error"}

C16_Witness ==
  /\ sqs_handler
  /\ \E c \in Calls :
       /\ calls[c].op = "queue_status"
       /\ calls[c].st = "done"
       /\ calls[c].get_status = "error"
       /\ calls[c].body = StatusErrorKeys

\* C17: the logger's log operations never raise to their caller: a failure
\* of the tracking collaborator at any step is caught (and logged), and an
\* empty original query does not make the expansion-ratio computation
\* fail.
C17_LogNeverRaises ==
  fn.op \in LogOps =>
    /\ ~fn.raised
    /\ fn.error_logged = fn.failed
    /\ fn.st = "done" => (fn.failed \/ fn.pc = Len(fn.steps))
    /\ (/\ fn.op = "log_query_expansion"
        /\ fn.original_query = <<>>
        /\ fn.pc >= 8) => fn.ratio = <<1, 1>>

C17_Witness ==
  /\ fn.op = "log_query_expansion"
  /\ fn.original_query = <<>>
  /\ fn.pc >= 8
  /\ fn.st = "done"
  /\ fn.failed
  /\ fn.error_logged

\* C18: while one POST /expand request is inside the real generation call,
\* a GET /health request arriving at that moment can be served: the
\* handler of a lightweight request is able to run before generation
\* returns.
C18_HealthServedDuringGeneration ==
  (/\ model = "real"
   /\ tokenizer = "real"
   /\ \E c \in Calls : calls[c].op = "expand" /\ calls[c].st = "generating"
   /\ \E d \in Calls : calls[d].st = "idle")
    => \E d \in Calls : ENABLED health_check(d)

\* A POST /expand request that passed the readiness check and went to the
\* engine (the synchronous path).
SyncExpand(c) == calls[c].op = "expand" /\ calls[c].engine_calls = 1

\* C19: for any interleaving of concurrent POST /expand requests with
\* use_queue=false against a ready engine, every request completes with
\* HTTP 200 and its own result for its own query (a request in flight is
\* never stuck: it is the one generating, whose call returns or raises, or
\* it is suspended in a sleep and can be resumed as soon as no call holds
\* the event loop, and only a generating call holds it),
\* and no step of a request changes the engine's handle, model, tokenizer
\* or readiness flag.
C19_ConcurrentExpandsIndependent ==
  /\ [](\A c \in Calls :
          /\ (SyncExpand(c) /\ calls[c].st = "done") =>
                /\ calls[c].status = 200
                /\ calls[c].original_query = calls[c].query
                /\ calls[c].expanded_query \in EngineResults[calls[c].query]
                /\ calls[c].mock_calls = 1 =>
                     calls[c].expanded_query = MockOf[calls[c].query]
                /\ model_handler = "MockModelHandler" =>
                     calls[c].expanded_query = MockHandlerPrefix \o calls[c].query
          /\ (SyncExpand(c) /\ calls[c].st # "done") =>
                /\ calls[c].st \in {"generating", "sleeping"}
                /\ calls[c].st = "generating" => running = c
                /\ running # 0 => calls[running].st = "generating"
                /\ (calls[c].st = "sleeping" /\ running = 0) => ENABLED wake(c))
  /\ [][calls' # calls => UNCHANGED engine]_vars

\* Two synchronous requests for different queries were in flight together
\* and the later one has been answered first.
C19_Witness ==
  /\ SyncExpand(1) /\ SyncExpand(2)
  /\ calls[1].query # calls[2].query
  /\ ~calls[1].use_queue /\ ~calls[2].use_queue
  /\ calls[1].st = "sleeping"
  /\ calls[2].st = "done"
  /\ calls[2].status = 200

\* The engine is in the degraded ready state a failed load leaves: the
\* stub model and the stub tokenizer are installed and ready is set.
DegradedReady ==
  /\ model_handler = "LlamaQueryExpander"
  /\ model = "stub"
  /\ tokenizer = "stub"
  /\ ready

\* C20: in the degraded ready state, expand_query(q) returns exactly the
\* mock policy's output for q and raises nothing; what the stub generator
\* and the stub tokenizer's decode produce never reaches the caller.
C20_DegradedEngineIsMockPolicy ==
  [][\A c \in Calls :
       (/\ DegradedReady
        /\ calls[c].st # "done"
        /\ calls'[c].st = "done"
        /\ calls'[c].engine_calls = 1)
         => /\ calls'[c].ret = MockOf[calls'[c].query]
            /\ calls'[c].ret # StubDecoded
            /\ calls'[c].raised = ""
            /\ calls'[c].mock_calls = 1
            /\ calls'[c].op = "expand" =>
                 /\ calls'[c].status = 200
                 /\ calls'[c].expanded_query = MockOf[calls'[c].query]]_vars

\* Both kinds of caller (the gateway and a direct caller) have been
\* answered by the degraded engine, after its real path gave up.
C20_Witness ==
  /\ DegradedReady
  /\ \E c \in Calls :
       /\ calls[c].op = "expand"
       /\ calls[c].st = "done"
       /\ calls[c].real_raised
       /\ calls[c].ret = MockOf[calls[c].query]
  /\ \E c \in Calls :
       /\ calls[c].op = "engine"
       /\ calls[c].st = "done"
       /\ calls[c].real_raised
       /\ calls[c].ret = MockOf[calls[c].query]

\* C21: at every intermediate point of the startup load and of teardown,
\* an is_ready() call by a concurrent reader returns a boolean without
\* raising, and returns true only when both the model handle and the
\* tokenizer handle are present.
C21_IsReadyAtomicForReaders ==
  (fn.op = "is_ready" /\ fn.reads > 0) =>
    /\ fn.result \in {"True", "False"}
    /\ fn.result = "True" =>
         /\ fn.seen[1] \notin {"None", NoAttr}
         /\ fn.seen[2] \notin {"None", NoAttr}

\* C22: for each POST /expand a logging task is added exactly when the
\* request succeeds on the synchronous path and a logger is configured
\* (never for a queued response, a failure, or without a logger), and it
\* is added once; the task runs at most once and only after the request's
\* response has been produced, and neither its run nor a failure inside it
\* changes any response.
C22_LoggingTaskOncePerSyncSuccess ==
  /\ [](fn.op = "tasks" =>
          /\ \A c \in Calls :
               calls[c].task <=>
                 /\ calls[c].op = "expand"
                 /\ calls[c].st = "done"
                 /\ calls[c].status = 200
                 /\ ~calls[c].queued
                 /\ calls[c].sent = 0
                 /\ mlflow_logger
          /\ \A i \in 1..Len(fn.ran) :
               /\ calls[fn.ran[i]].task
               /\ fn.answered[i] = Response(fn.ran[i])
               /\ fn.answered[i][1] = "done"
               /\ \A j \in 1..Len(fn.ran) : fn.ran[j] = fn.ran[i] => j = i)
  /\ [][fn.op = "tasks" /\ fn' # fn => calls' = calls]_vars

\* A logger is configured; the first request succeeded synchronously, its
\* task has run and failed inside; the second request was queued and has
\* no task.
C22_Witness ==
  /\ fn.op = "tasks"
  /\ mlflow_logger
  /\ calls[1].task /\ calls[1].status = 200
  /\ fn.ran = <<1>>
  /\ fn.failed = {1}
  /\ calls[2].st = "done" /\ calls[2].queued /\ ~calls[2].task

\* C23: the readiness check precedes the queue hand-off: a POST /expand
\* with use_queue = true that arrives while the engine is not ready, with
\* a queue configured or not, sends no message, enqueues nothing and
\* gets no queued response.  (The engine cannot become ready again after
\* the request: no handler runs inside startup, and shutdown is final.)
C23_NotReadyNeverQueues ==
  [][\A c \in Calls, q \in Queries :
        ((engine_not_ready \/ is_ready = "AttributeError") /\ post_expand(c, q, TRUE)) =>
          /\ calls'[c].st = "done"
          /\ calls'[c].sent = 0
          /\ ~calls'[c].queued
          /\ calls'[c].status # 200
          /\ queue' = queue]_vars

\* A queue is configured; the first request was served synchronously, then
\* the service shut down, and a use_queue request that arrived afterwards
\* was refused with nothing sent.
C23_Witness ==
  /\ sqs_handler
  /\ lifespan = "stopped"
  /\ calls[1].op = "expand" /\ calls[1].status = 200
  /\ calls[2].op = "expand" /\ calls[2].use_queue
  /\ calls[2].st = "done" /\ calls[2].sent = 0 /\ calls[2].status # 200
  /\ queue = <<>>

\* C24: for every query that is exactly a key of the exact-match table the
\* mock policy's output is exactly the table's value for it, with no later
\* rule applied (no suffix for a short key, no marker word); the match is
\* case- and whitespace-exact: a query that differs from a key only by the
\* case of letters or by surrounding whitespace does not get the key's
\* value.
C24_ExactMatchWins ==
  \A k \in 1..2 :
    (fn.op = "mock" /\ fn.runs[k].st # "idle") =>
      \A p \in expansions :
        /\ fn.input = p[1] => fn.runs[k].output = p[2]
        /\ (fn.input # p[1] /\ Lower(Strip(fn.input)) = Lower(Strip(p[1])))
             => fn.runs[k].output # p[2]

\* The policy has returned for the key 'CNN', a one-token query of three
\* characters that the suffix rule would otherwise extend.
C24_Witness ==
  /\ fn.op = "mock"
  /\ fn.input = <<"C","N","N">>
  /\ fn.runs[1].st = "done"
  /\ SplitCount(fn.input) = 1 /\ Len(fn.input) <= ShortQueryLen
  /\ fn.runs[1].output = <<"c","o","n","v","o","l","u","t","i","o","n","a","l"," ","n","e","u","r","a","l"," ","n","e","t","w","o","r","k","s">>

\* C25: for every query outside the exact-match table, the mock policy's
\* output ends with ' techniques and applications' exactly when the query
\* is one whitespace-delimited token and has at most 4 characters; the
\* suffix then follows the repaired text.  A query of zero tokens, of two
\* or more tokens, or of more than 4 characters never gets it.
C25_SuffixIffShortSingleToken ==
  \A k \in 1..2 :
    (fn.op = "mock" /\ fn.runs[k].st # "idle" /\ ~InExpansions(fn.input)) =>
      LET out == fn.runs[k].output
          short == SplitCount(fn.input) = 1 /\ Len(fn.input) <= 4
          suffixed == /\ Len(out) >= Len(ShortSuffix)
                      /\ MatchesAt(ShortSuffix, out, Len(out) - Len(ShortSuffix) + 1)
      IN /\ suffixed <=> short
         /\ short => out = Repairs(fn.input) \o ShortSuffix

\* The policy has returned for 'sci', one token of three characters whose
\* repair precedes the suffix.
C25_Witness ==
  /\ fn.op = "mock"
  /\ fn.input = <<"s","c","i">>
  /\ fn.runs[1].st = "done"
  /\ fn.runs[1].output = T_science \o ShortSuffix

\* C26: for every query outside the exact-match table, each substring
\* repair whose trigger matches the query (tested on the lower-cased
\* query, with the rule's own guard) has its repair in the output: the
\* canonical spelling occurs there, and wherever the misspelling or
\* abbreviation occurs in the output, in any case of letters, the
\* canonical spelling stands at that place; when several triggers match
\* this holds for all of them in the one output.
C26_TriggeredRepairsApplied ==
  \A k \in 1..2 :
    (fn.op = "mock" /\ fn.runs[k].st # "idle" /\ ~InExpansions(fn.input)) =>
      LET q == Lower(fn.input)
          out == fn.runs[k].output
          rules == {
            <<Contains(T_algo, q) /\ ~Contains(T_algorithm, q), T_algo, T_algorithm>>,
            <<Contains(T_enginer, q), T_enginer, T_engineer>>,
            <<Contains(T_lerning, q), T_lerning, T_learning>>,
            <<Contains(T_vison, q), T_vison, T_vision>>,
            <<Contains(T_sci, q) /\ SplitCount(fn.input) <= 2, T_sci, T_science>>}
      IN \A r \in rules :
           r[1] => /\ Contains(r[3], out)
                   /\ \A i \in 1..Len(out) :
                        MatchesAt(r[2], Lower(out), i) => MatchesAt(r[3], out, i)

\* C29: the substring repairs never corrupt text that is already
\* canonical: for a query outside the exact-match table, wherever one of
\* 'algorithm', 'engineer', 'learning', 'vision', 'science' occurs in the
\* query as a word (delimited by whitespace or the ends of the query),
\* the output has as many such words of that spelling as the query has.
C29_CanonicalWordsKept ==
  \A k \in 1..2 :
    (fn.op = "mock" /\ fn.runs[k].st # "idle" /\ ~InExpansions(fn.input)) =>
      LET Words(w, s) ==
            {i \in 1..Len(s) :
               /\ MatchesAt(w, s, i)
               /\ (i = 1 \/ s[i - 1] \in Whitespace)
               /\ (i + Len(w) > Len(s) \/ s[i + Len(w)] \in Whitespace)}
      IN \A w \in {T_algorithm, T_engineer, T_learning, T_vision, T_science} :
           Cardinality(Words(w, fn.input)) <= Cardinality(Words(w, fn.runs[k].output))

\* C27: on the real path without backend error the result is the cleaned
\* text that follows the last occurrence of 'Improved query:' in the
\* decoded output, and when the decoded output holds no such delimiter the
\* result is the cleaned original query.
C27_RealPathExtraction ==
  (fn.op = "real" /\ fn.runs[1].st = "done") =>
    LET text == fn.input
        at == {i \in 1..Len(text) : MatchesAt(Delimiter, text, i)}
    IN IF at = {}
       THEN fn.runs[1].output = clean_response(fn.query)
       ELSE LET last == CHOOSE i \in at : \A j \in at : j <= i
            IN fn.runs[1].output =
                 clean_response(SubSeq(text, last + Len(Delimiter), Len(text)))

\* The extraction has run on a decoded text with two delimiters whose
\* pieces differ, and returned the piece after the second.
C27_Witness ==
  /\ fn.op = "real"
  /\ fn.runs[1].st = "done"
  /\ fn.input = Delimiter \o <<" ">> \o Delimiter \o <<"a">>
  /\ fn.runs[1].output = <<"a">>

\* C28: one load_model call invokes the backend's model-load operation
\* zero times when the credential token is absent (the engine goes
\* straight to the degraded ready state), exactly once when the first
\* load succeeds, and exactly twice when the first load fails (one
\* fallback attempt, whose own failure is not retried); it never invokes
\* it more than twice, and it never raises: every one of its steps either
\* continues inside load_model or returns with the engine ready.
C28_LoadAttemptsBounded ==
  /\ [](/\ load_calls <= 2
        /\ lifespan \in {"constructed", "tokenizer", "model"} => load_calls = 0
        /\ lifespan = "fallback" =>
             load_calls = 1 /\ \E o \in LoadOutcomes : ENABLED load_model_fallback(o)
        /\ lifespan = "loaded" => is_ready = "True")
  /\ [][/\ load_model_token(FALSE) =>
             load_calls' = 0 /\ lifespan' = "loaded" /\ model' = "stub"
        /\ load_model_model("ok") =>
             load_calls' = 1 /\ lifespan' = "loaded" /\ model' = "real"
        /\ (\E o \in LoadOutcomes \ {"ok"} : load_model_model(o)) =>
             load_calls' = 1 /\ lifespan' = "fallback"
        /\ (\E o \in LoadOutcomes : load_model_fallback(o)) =>
             load_calls' = 2 /\ lifespan' = "loaded"
        /\ (lifespan \in {"constructed", "tokenizer", "model", "fallback"}
              /\ lifespan' # lifespan) =>
             lifespan' \in {"tokenizer", "model", "fallback", "loaded"}]_vars

\* load_model has returned after a failed first load and a failed
\* fallback: two model loads were made and the stubs are installed.
C28_Witness ==
  /\ lifespan = "loaded"
  /\ load_calls = 2
  /\ model = "stub"
  /\ ready

\* C30: once shutdown has run cleanup on the engine, in every later state
\* GET /health answers HTTP 200 with status unhealthy, every later POST
\* /expand ends at once with a non-200 answer and without a call of the
\* engine, of the mock policy, of the queue or of the logger, and a second
\* cleanup() call on the same engine completes without raising.
C30_AfterShutdown ==
  /\ []((lifespan = "stopped" /\ model_handler = "LlamaQueryExpander") =>
          /\ health_answer.status = 200
          /\ health_answer.health = "unhealthy"
          /\ ~cleanup_raises)
  /\ [][(lifespan = "stopped" /\ model_handler = "LlamaQueryExpander") =>
          /\ \A c \in Calls :
               health_check(c) =>
                 calls'[c].status = 200 /\ calls'[c].health = "unhealthy"
          /\ \A c \in Calls, q \in Queries, uq \in BOOLEAN :
               post_expand(c, q, uq) =>
                 /\ calls'[c].st = "done"
                 /\ calls'[c].status # 200
                 /\ calls'[c].engine_calls = 0
                 /\ calls'[c].real_calls = 0
                 /\ calls'[c].mock_calls = 0
                 /\ calls'[c].sent = 0
                 /\ ~calls'[c].task
                 /\ queue' = queue]_vars

====
